---- MODULE Spec2Model ----
(***************************************************************************)
(* A model of the go-kml library: the coordinate and colour codecs, the    *)
(* geometry and feature codecs written on top of encoding/xml, and the     *)
(* document envelope (Parse / Write).                                      *)
(*                                                                         *)
(* Go strings are modelled as sequences of one-character strings, so that  *)
(* formatting and parsing are real conversions.  A float64 is modelled as  *)
(* a normalised decimal [m, e] (the value m * 10^e, m not divisible by 10, *)
(* zero being [0, 0]); for the short decimal texts of the model this is    *)
(* what strconv.ParseFloat and the shortest %g formatting compute.  An XML *)
(* document is modelled as the element tree that encoding/xml's tokenizer  *)
(* walks: a node has a tag, attributes, character data and child nodes.    *)
(***************************************************************************)
EXTENDS Integers, Sequences, FiniteSets, TLC

VARIABLES pc,          \* which operation ran last
          color,       \* SpecColor: the Color handed to Hex
          colorText,   \* SpecColor: the text handed to ParseColor
          colorRes,    \* SpecColor: the result of ParseColor
          coords,      \* SpecCoord: the coordinates handed to String
          coordText,   \* SpecCoord: the text handed to ParseCoordinates
          coordRes,    \* SpecCoord: the result of ParseCoordinates
          geom,        \* SpecGeom: the geometry handed to the encoder
          geomXml,     \* SpecGeom: the element the decoder reads
          geomRes,     \* SpecGeom: the result of decoding geomXml
          kml,         \* Spec: the KML tree handed to Write
          xml,         \* Spec: the document handed to Parse
          base,        \* SpecEdit: the document before it was edited
          parsed,      \* Spec: the result of Parse
          walk,        \* SpecWalk: the calls and the result of a traversal
          heap         \* SpecBuilder: the objects the builders work on

vars == <<pc, color, colorText, colorRes, coords, coordText, coordRes,
          geom, geomXml, geomRes, kml, xml, base, parsed, walk, heap>>

(***************************************************************************)
(* Bounds of the model.                                                    *)
(***************************************************************************)
MaxRawText == 4      \* longest text enumerated character by character
MaxTuples == 2       \* most tuples in a generated coordinate list
MaxGeoms == 2        \* most children of a MultiGeometry, most inner boundaries
MaxNodes == 3        \* most features in a generated KML tree
MaxTop == 3          \* most children of the kml element of a received document
MaxWrappers == 2     \* most boundary wrappers in a received Polygon element
MaxKids == 3         \* most children of a received Placemark element

(***************************************************************************)
(* Generic helpers on sequences.                                           *)
(***************************************************************************)
RECURSIVE SeqsUpTo(_, _)
SeqsUpTo(S, n) ==
    IF n = 0 THEN {<<>>}
    ELSE LET shorter == SeqsUpTo(S, n - 1)
         IN shorter \cup {Append(s, c) : s \in {t \in shorter : Len(t) = n - 1}, c \in S}

RECURSIVE Concat(_)
Concat(ss) == IF ss = <<>> THEN <<>> ELSE Head(ss) \o Concat(Tail(ss))

Max(a, b) == IF a >= b THEN a ELSE b

RECURSIVE Pow10(_)
Pow10(n) == IF n = 0 THEN 1 ELSE 10 * Pow10(n - 1)

(***************************************************************************)
(* Errors.  An error value is a record; Nil is the nil error.  errors.Is   *)
(* follows the Unwrap chain.                                               *)
(***************************************************************************)
Nil == [kind |-> "nil"]

ErrorsNew(msg) == [kind |-> "errorString", msg |-> msg, cause |-> Nil]

\* fmt.Errorf with a %w verb: the result unwraps to cause.
Wrap(msg, cause) == [kind |-> "wrapError", msg |-> msg, cause |-> cause]

\* fmt.Errorf with %v or %s only: the result has no Unwrap.
Errorf(msg) == [kind |-> "errorString", msg |-> msg, cause |-> Nil]

\* strconv's *NumError (it unwraps to strconv.ErrSyntax, never to a kml error).
NumError == [kind |-> "NumError", msg |-> "invalid syntax", cause |-> Nil]

ErrInvalidCoordinate == ErrorsNew("kml: invalid coordinate format")
ErrInvalidColor == ErrorsNew("kml: invalid color format")
ErrEmptyDocument == ErrorsNew("kml: document contains no features")

RECURSIVE ErrorsIs(_, _)
ErrorsIs(err, target) ==
    IF err.kind = "nil" THEN FALSE
    ELSE IF err.kind = target.kind /\ err.msg = target.msg /\ err.kind = "errorString"
         THEN TRUE
    ELSE ErrorsIs(err.cause, target)

(***************************************************************************)
(* Characters and strings (package strings, strconv, fmt).                 *)
(***************************************************************************)
DecDigits == <<"0", "1", "2", "3", "4", "5", "6", "7", "8", "9">>
HexLower == <<"0", "1", "2", "3", "4", "5", "6", "7", "8", "9",
              "a", "b", "c", "d", "e", "f">>
HexUpper == <<"0", "1", "2", "3", "4", "5", "6", "7", "8", "9",
              "A", "B", "C", "D", "E", "F">>

IsDigit(c) == \E i \in 1..10 : DecDigits[i] = c
DigitVal(c) == (CHOOSE i \in 1..10 : DecDigits[i] = c) - 1
IsHex(c) == \E i \in 1..16 : HexLower[i] = c \/ HexUpper[i] = c
HexVal(c) == (CHOOSE i \in 1..16 : HexLower[i] = c \/ HexUpper[i] = c) - 1

\* unicode.IsSpace on the characters of the model.
IsSpace(c) == c \in {" ", "\t", "\n", "\r", "\f"}

RECURSIVE TrimLeft(_)
TrimLeft(s) == IF s # <<>> /\ IsSpace(Head(s)) THEN TrimLeft(Tail(s)) ELSE s

RECURSIVE TrimRight(_)
TrimRight(s) ==
    IF s # <<>> /\ IsSpace(s[Len(s)]) THEN TrimRight(SubSeq(s, 1, Len(s) - 1)) ELSE s

\* strings.TrimSpace
TrimSpace(s) == TrimRight(TrimLeft(s))

\* strings.Split(s, sep) for a one-character separator: always at least one part.
RECURSIVE SplitAcc(_, _, _, _)
SplitAcc(s, sep, cur, acc) ==
    IF s = <<>> THEN Append(acc, cur)
    ELSE IF Head(s) = sep THEN SplitAcc(Tail(s), sep, <<>>, Append(acc, cur))
    ELSE SplitAcc(Tail(s), sep, Append(cur, Head(s)), acc)

Split(s, sep) == SplitAcc(s, sep, <<>>, <<>>)

\* strings.Fields: the maximal runs of non-space characters.
RECURSIVE FieldsAcc(_, _, _)
FieldsAcc(s, cur, acc) ==
    IF s = <<>> THEN (IF cur = <<>> THEN acc ELSE Append(acc, cur))
    ELSE IF IsSpace(Head(s))
         THEN FieldsAcc(Tail(s), <<>>, IF cur = <<>> THEN acc ELSE Append(acc, cur))
    ELSE FieldsAcc(Tail(s), Append(cur, Head(s)), acc)

Fields(s) == FieldsAcc(s, <<>>, <<>>)

\* strings.Join
RECURSIVE Join(_, _)
Join(parts, sep) ==
    IF parts = <<>> THEN <<>>
    ELSE IF Len(parts) = 1 THEN parts[1]
    ELSE parts[1] \o sep \o Join(Tail(parts), sep)

IndexOf(s, chars) ==
    IF \E i \in 1..Len(s) : s[i] \in chars
    THEN CHOOSE i \in 1..Len(s) : s[i] \in chars /\ \A j \in 1..(i - 1) : s[j] \notin chars
    ELSE 0

AllDigits(s) == \A i \in 1..Len(s) : IsDigit(s[i])

\* The natural number a digit string denotes (0 for the empty string).
RECURSIVE DigitsVal(_)
DigitsVal(s) ==
    IF s = <<>> THEN 0 ELSE 10 * DigitsVal(SubSeq(s, 1, Len(s) - 1)) + DigitVal(s[Len(s)])

\* The decimal digits of a natural number, "0" for 0.
RECURSIVE NatDigits(_)
NatDigits(n) ==
    IF n < 10 THEN <<DecDigits[n + 1]>>
    ELSE Append(NatDigits(n \div 10), DecDigits[(n % 10) + 1])

(***************************************************************************)
(* float64 as a normalised decimal.                                        *)
(***************************************************************************)
RECURSIVE Normalize(_, _)
Normalize(m, e) ==
    IF m = 0 THEN [m |-> 0, e |-> 0]
    ELSE IF m % 10 = 0 THEN Normalize(m \div 10, e + 1)
    ELSE [m |-> m, e |-> e]

Num(m, e) == Normalize(m, e)
Zero == Num(0, 0)
Abs(n) == IF n < 0 THEN 0 - n ELSE n

\* strconv.ParseFloat(s, 64) on the characters of the model: an optional sign,
\* decimal digits with at most one point and at least one digit, an optional
\* exponent e[+-]digits.  Any other text is a syntax error.
ParseFloat(s) ==
    LET bad == [ok |-> FALSE, val |-> Zero]
        Value(neg, mag, ev, nfrac) ==
            [ok |-> TRUE, val |-> Num(IF neg THEN 0 - mag ELSE mag, ev - nfrac)]
        Digits(neg, ip, fp, hasExp, eneg, edigs) ==
            IF ~AllDigits(ip) \/ ~AllDigits(fp) \/ Len(ip) + Len(fp) = 0 THEN bad
            ELSE IF hasExp /\ (edigs = <<>> \/ ~AllDigits(edigs)) THEN bad
            ELSE Value(neg, DigitsVal(ip \o fp),
                       IF ~hasExp THEN 0
                       ELSE IF eneg THEN 0 - DigitsVal(edigs) ELSE DigitsVal(edigs),
                       Len(fp))
        Mantissa(neg, mant, dot, hasExp, expo) ==
            Digits(neg,
                   IF dot = 0 THEN mant ELSE SubSeq(mant, 1, dot - 1),
                   IF dot = 0 THEN <<>> ELSE SubSeq(mant, dot + 1, Len(mant)),
                   hasExp,
                   expo # <<>> /\ expo[1] = "-",
                   IF expo # <<>> /\ expo[1] \in {"+", "-"} THEN Tail(expo) ELSE expo)
        Exponent(neg, mant, hasExp, expo) ==
            Mantissa(neg, mant, IndexOf(mant, {"."}), hasExp, expo)
        Body(neg, body, epos) ==
            Exponent(neg,
                     IF epos = 0 THEN body ELSE SubSeq(body, 1, epos - 1),
                     epos # 0,
                     IF epos = 0 THEN <<>> ELSE SubSeq(body, epos + 1, Len(body)))
        Sign(neg, body) == Body(neg, body, IndexOf(body, {"e", "E"}))
    IN Sign(s # <<>> /\ s[1] = "-",
            IF s # <<>> /\ s[1] \in {"+", "-"} THEN Tail(s) ELSE s)

RECURSIVE Zeros(_)
Zeros(n) == IF n <= 0 THEN <<>> ELSE <<"0">> \o Zeros(n - 1)

\* fmt's %g of a float64 (strconv.FormatFloat(f, 'g', -1, 64)): the shortest
\* digits that round-trip, in %e form when the decimal exponent is < -4 or >= 6.
FormatG(v) ==
    LET sign == IF v.m < 0 THEN <<"-">> ELSE <<>>
        digs == IF v.m = 0 THEN <<>> ELSE NatDigits(Abs(v.m))
        nd == Len(digs)
        dp == IF v.m = 0 THEN 0 ELSE nd + v.e
        exp == dp - 1
    IN IF v.m = 0 THEN <<"0">>
       ELSE IF exp < -4 \/ exp >= 6
       THEN sign \o <<digs[1]>>
                 \o (IF nd > 1 THEN <<".">> \o Tail(digs) ELSE <<>>)
                 \o <<"e">> \o (IF exp < 0 THEN <<"-">> ELSE <<"+">>)
                 \o (IF Abs(exp) < 10 THEN <<"0">> ELSE <<>>) \o NatDigits(Abs(exp))
       ELSE sign
            \o (IF dp <= 0 THEN <<"0">>
                ELSE SubSeq(digs, 1, IF dp < nd THEN dp ELSE nd) \o Zeros(dp - nd))
            \o (IF nd > dp
                THEN <<".">> \o Zeros(0 - dp) \o SubSeq(digs, Max(dp, 0) + 1, nd)
                ELSE <<>>)

(***************************************************************************)
(* Coordinate codec (coordinate.go).                                       *)
(***************************************************************************)
Coord(lon, lat, alt) == [Lon |-> lon, Lat |-> lat, Alt |-> alt]

\* Coordinate.String that never writes the altitude.
CoordinateString_NoAlt(c) == FormatG(c.Lon) \o <<",">> \o FormatG(c.Lat)

\* Coordinate.String: "lon,lat" when the altitude is 0, else "lon,lat,alt".
CoordinateString(c) ==
    IF c.Alt = Zero
    THEN FormatG(c.Lon) \o <<",">> \o FormatG(c.Lat)
    ELSE FormatG(c.Lon) \o <<",">> \o FormatG(c.Lat) \o <<",">> \o FormatG(c.Alt)

CoordErr(msg) == Wrap(msg, ErrInvalidCoordinate)

\* ParseCoordinates' loop body without the upper limit on the number of
\* fields and without the altitude check on an empty third field, as in
\* parseCoordinates.
ParseTuple_Lenient(field) ==
    LET none == Coord(Zero, Zero, Zero)
        Check(n, lon, lat, alt) ==
            IF n < 2 THEN [c |-> none, err |-> CoordErr("expected 2 or 3 values")]
            ELSE IF ~lon.ok THEN [c |-> none, err |-> CoordErr("invalid longitude")]
            ELSE IF ~lat.ok THEN [c |-> none, err |-> CoordErr("invalid latitude")]
            ELSE IF ~alt.ok THEN [c |-> none, err |-> CoordErr("invalid altitude")]
            ELSE [c |-> Coord(lon.val, lat.val, alt.val), err |-> Nil]
    IN Check(Len(Split(field, ",")),
             ParseFloat(TrimSpace(Split(field, ",")[1])),
             ParseFloat(TrimSpace(Split(field, ",")[2])),
             IF Len(Split(field, ",")) >= 3 /\ Split(field, ",")[3] # <<>>
             THEN ParseFloat(TrimSpace(Split(field, ",")[3]))
             ELSE [ok |-> TRUE, val |-> Zero])

\* The body of ParseCoordinates' loop for one whitespace-delimited field.
ParseTuple(field) ==
    LET none == Coord(Zero, Zero, Zero)
        Check(n, lon, lat, alt) ==
            IF n < 2 \/ n > 3 THEN [c |-> none, err |-> CoordErr("expected 2 or 3 values")]
            ELSE IF ~lon.ok THEN [c |-> none, err |-> CoordErr("invalid longitude")]
            ELSE IF ~lat.ok THEN [c |-> none, err |-> CoordErr("invalid latitude")]
            ELSE IF ~alt.ok THEN [c |-> none, err |-> CoordErr("invalid altitude")]
            ELSE [c |-> Coord(lon.val, lat.val, alt.val), err |-> Nil]
    IN Check(Len(Split(field, ",")),
             ParseFloat(TrimSpace(Split(field, ",")[1])),
             ParseFloat(TrimSpace(Split(field, ",")[2])),
             IF Len(Split(field, ",")) = 3
             THEN ParseFloat(TrimSpace(Split(field, ",")[3]))
             ELSE [ok |-> TRUE, val |-> Zero])

RECURSIVE ParseCoordinatesLoop(_, _)
ParseCoordinatesLoop(fields, acc) ==
    IF fields = <<>> THEN [coords |-> acc, err |-> Nil]
    ELSE LET Then(t) == IF t.err # Nil THEN [coords |-> <<>>, err |-> t.err]
                        ELSE ParseCoordinatesLoop(Tail(fields), Append(acc, t.c))
         IN Then(ParseTuple(Head(fields)))

\* ParseCoordinates (exported, strict).
ParseCoordinates(s) ==
    LET Trimmed(t, fields) ==
            IF t = <<>> THEN [coords |-> <<>>, err |-> CoordErr("empty coordinate string")]
            ELSE IF Len(fields) = 0
            THEN [coords |-> <<>>, err |-> CoordErr("empty coordinate string")]
            ELSE ParseCoordinatesLoop(fields, <<>>)
    IN Trimmed(TrimSpace(s), Fields(TrimSpace(s)))

\* The body of parseCoordinates' loop (geometry.go) for one tuple.
parseCoordinatesTuple(tuple) ==
    LET none == Coord(Zero, Zero, Zero)
        Check(n, lon, lat, alt) ==
            IF n < 2 THEN [c |-> none, err |-> Errorf("invalid coordinate tuple")]
            ELSE IF ~lon.ok THEN [c |-> none, err |-> Wrap("invalid longitude in tuple", NumError)]
            ELSE IF ~lat.ok THEN [c |-> none, err |-> Wrap("invalid latitude in tuple", NumError)]
            ELSE IF ~alt.ok THEN [c |-> none, err |-> Wrap("invalid altitude in tuple", NumError)]
            ELSE [c |-> Coord(lon.val, lat.val, alt.val), err |-> Nil]
    IN Check(Len(Split(tuple, ",")),
             ParseFloat(Split(tuple, ",")[1]),
             ParseFloat(Split(tuple, ",")[2]),
             IF Len(Split(tuple, ",")) >= 3 /\ Split(tuple, ",")[3] # <<>>
             THEN ParseFloat(Split(tuple, ",")[3])
             ELSE [ok |-> TRUE, val |-> Zero])

RECURSIVE parseCoordinatesLoop(_, _)
parseCoordinatesLoop(tuples, acc) ==
    IF tuples = <<>> THEN [coords |-> acc, err |-> Nil]
    ELSE LET Then(t) == IF t.err # Nil THEN [coords |-> <<>>, err |-> t.err]
                        ELSE parseCoordinatesLoop(Tail(tuples), Append(acc, t.c))
         IN Then(parseCoordinatesTuple(Head(tuples)))

\* parseCoordinates that rejects an empty text, as ParseCoordinates does.
parseCoordinates_EmptyIsError(s) ==
    LET Trimmed(t) == IF t = <<>>
                      THEN [coords |-> <<>>, err |-> Errorf("empty coordinate string")]
                      ELSE parseCoordinatesLoop(Fields(t), <<>>)
    IN Trimmed(TrimSpace(s))

\* parseCoordinates (unexported, used by the geometry decoders).
parseCoordinates(s) ==
    LET Trimmed(t) == IF t = <<>> THEN [coords |-> <<>>, err |-> Nil]
                      ELSE parseCoordinatesLoop(Fields(t), <<>>)
    IN Trimmed(TrimSpace(s))

RECURSIVE CoordStrings(_)
CoordStrings(cs) ==
    IF cs = <<>> THEN <<>> ELSE <<CoordinateString(Head(cs))>> \o CoordStrings(Tail(cs))

\* coordinatesToString that writes a space after every coordinate, the last
\* one included.
coordinatesToString_TrailingSpace(cs) ==
    IF Len(cs) = 0 THEN <<>> ELSE Join(CoordStrings(cs), <<" ">>) \o <<" ">>

\* coordinatesToString (geometry.go)
coordinatesToString(cs) ==
    IF Len(cs) = 0 THEN <<>> ELSE Join(CoordStrings(cs), <<" ">>)

(***************************************************************************)
(* Colour codec (color.go).                                                *)
(***************************************************************************)
Color(a, b, g, r) == [A |-> a, B |-> b, G |-> g, R |-> r]

\* %02x of one uint8 channel.
Hex2(v) == <<HexLower[(v \div 16) + 1], HexLower[(v % 16) + 1]>>

\* Hex with %x in place of %02x: a channel below 16 loses its leading zero.
Hex_Unpadded(c) ==
    LET x(v) == IF v < 16 THEN <<HexLower[v + 1]>> ELSE Hex2(v)
    IN x(c.A) \o x(c.B) \o x(c.G) \o x(c.R)

\* Hex that writes the channels in the order alpha, red, green, blue.
Hex_RedFirst(c) == Hex2(c.A) \o Hex2(c.R) \o Hex2(c.G) \o Hex2(c.B)

\* Color.Hex
Hex(c) == Hex2(c.A) \o Hex2(c.B) \o Hex2(c.G) \o Hex2(c.R)

\* strconv.ParseUint(s, 16, 32): no sign, no prefix, no underscore in base 16.
\* TLC's integers are 32-bit signed, so the uint32 result is held as the list
\* of its hexadecimal digits, most significant first, padded to 8 digits.
ParseUint16(s) ==
    IF s = <<>> \/ \E i \in 1..Len(s) : ~IsHex(s[i])
    THEN [ok |-> FALSE, nib |-> <<0, 0, 0, 0, 0, 0, 0, 0>>]
    ELSE IF Len(s) > 8 /\ \E i \in 1..(Len(s) - 8) : HexVal(s[i]) # 0
    THEN [ok |-> FALSE, nib |-> <<15, 15, 15, 15, 15, 15, 15, 15>>]
    ELSE [ok |-> TRUE,
          nib |-> [i \in 1..8 |->
                     IF i + Len(s) - 8 >= 1 THEN HexVal(s[i + Len(s) - 8]) ELSE 0]]

\* uint8((val >> shift) & 0xFF) for shift in {24, 16, 8, 0}.
ShiftMask(u, shift) ==
    LET k == 7 - (shift \div 4)
    IN 16 * u.nib[k] + u.nib[k + 1]

\* ParseColor
ParseColor(s) ==
    LET Parsed(u) ==
            IF ~u.ok
            THEN [val |-> Color(0, 0, 0, 0), err |-> Wrap("invalid hex color string", NumError)]
            ELSE [val |-> Color(ShiftMask(u, 24), ShiftMask(u, 16), ShiftMask(u, 8),
                                ShiftMask(u, 0)),
                  err |-> Nil]
    IN IF Len(s) # 8
       THEN [val |-> Color(0, 0, 0, 0),
             err |-> ErrorsNew("color string must be exactly 8 hexadecimal characters")]
       ELSE Parsed(ParseUint16(s))

(***************************************************************************)
(* encoding/xml as the codecs use it.  A node is one element: its tag, its *)
(* attributes, its own character data and its child elements.  A child     *)
(* with the tag SyntaxTag stands for the place where the tokenizer reports *)
(* a syntax error (truncated input, a mismatched tag).                     *)
(***************************************************************************)
SyntaxTag == "!syntax"

Elem(tag, attrs, text, kids) == [tag |-> tag, attrs |-> attrs, text |-> text, kids |-> kids]

\* e.EncodeElement(v, start) of a string or an integer: a text element.
TextElem(tag, text) == Elem(tag, <<>>, text, <<>>)

Attr(name, value) == [name |-> name, value |-> value]

\* for _, attr := range start.Attr { if attr.Name.Local == name { v = attr.Value } }
RECURSIVE AttrValue(_, _, _)
AttrValue(attrs, name, v) ==
    IF attrs = <<>> THEN v
    ELSE AttrValue(Tail(attrs), name, IF Head(attrs).name = name THEN Head(attrs).value ELSE v)

SyntaxError == [kind |-> "SyntaxError", msg |-> "XML syntax error", cause |-> Nil]

RECURSIVE Broken(_)
Broken(node) ==
    \/ node.tag = SyntaxTag
    \/ \E i \in 1..Len(node.kids) : Broken(node.kids[i])

\* d.Skip() that gives up on an element with child elements.
Skip_Shallow(el) == IF Broken(el) \/ el.kids # <<>> THEN SyntaxError ELSE Nil

\* d.Skip(): reads to the end of the element, failing on a syntax error inside.
Skip(el) == IF Broken(el) THEN SyntaxError ELSE Nil

\* d.DecodeElement(&s, &el) for a string: the element's own character data.
DecodeString(el) ==
    IF Broken(el) THEN [val |-> <<>>, err |-> SyntaxError]
    ELSE [val |-> el.text, err |-> Nil]

\* strconv.ParseInt(s, 10, 64) on the characters of the model.
ParseInt(s) ==
    LET Unsigned(neg, body) ==
            IF body = <<>> \/ ~AllDigits(body) THEN [ok |-> FALSE, val |-> 0]
            ELSE [ok |-> TRUE, val |-> IF neg THEN 0 - DigitsVal(body) ELSE DigitsVal(body)]
    IN Unsigned(s # <<>> /\ s[1] = "-",
                IF s # <<>> /\ s[1] \in {"+", "-"} THEN Tail(s) ELSE s)

\* d.DecodeElement(&v, &el) for an int: empty character data gives 0, else
\* ParseInt of the trimmed text.
DecodeInt(el) ==
    LET Parsed(n) == IF ~n.ok THEN [val |-> 0, err |-> NumError]
                     ELSE [val |-> n.val, err |-> Nil]
    IN IF Broken(el) THEN [val |-> 0, err |-> SyntaxError]
       ELSE IF el.text = <<>> THEN [val |-> 0, err |-> Nil]
       ELSE Parsed(ParseInt(TrimSpace(el.text)))

\* An optional child element: <<>> when the condition is false.
Opt(cond, el) == IF cond THEN <<el>> ELSE <<>>

\* The rune xml.EscapeText writes for a character XML cannot carry (U+FFFD).
RuneError == "U+FFFD"

\* isInCharacterRange: of the characters the model draws on, only the form
\* feed lies outside XML's character range.
IsInCharacterRange(c) == c # "\f"

\* xml.EscapeText followed by the decoder's unescaping: every character comes
\* back as written except those outside the character range.
EscapeText(s) == [i \in 1..Len(s) |-> IF IsInCharacterRange(s[i]) THEN s[i] ELSE RuneError]

\* e.EncodeElement(s, start) of a string
EncodeElement(tag, s) == Elem(tag, <<>>, EscapeText(s), <<>>)

\* an attribute written by e.EncodeToken(start)
EncodeAttr(name, s) == Attr(name, EscapeText(s))

\* strconv.ParseBool
ParseBool(s) ==
    IF s \in {<<"1">>, <<"t">>, <<"T">>, <<"t", "r", "u", "e">>, <<"T", "R", "U", "E">>,
              <<"T", "r", "u", "e">>}
    THEN [ok |-> TRUE, val |-> "true"]
    ELSE IF s \in {<<"0">>, <<"f">>, <<"F">>, <<"f", "a", "l", "s", "e">>,
                   <<"F", "A", "L", "S", "E">>, <<"F", "a", "l", "s", "e">>}
    THEN [ok |-> TRUE, val |-> "false"]
    ELSE [ok |-> FALSE, val |-> "false"]

\* d.DecodeElement(&b, &el) for a bool (held as "true" / "false").
DecodeBool(el) ==
    LET Parsed(b) == IF ~b.ok THEN [val |-> "false", err |-> NumError]
                     ELSE [val |-> b.val, err |-> Nil]
    IN IF Broken(el) THEN [val |-> "false", err |-> SyntaxError]
       ELSE IF el.text = <<>> THEN [val |-> "false", err |-> Nil]
       ELSE Parsed(ParseBool(TrimSpace(el.text)))

\* d.DecodeElement(&f, &el) for a float64
DecodeFloat(el) ==
    LET Parsed(f) == IF ~f.ok THEN [val |-> Zero, err |-> NumError]
                     ELSE [val |-> f.val, err |-> Nil]
    IN IF Broken(el) THEN [val |-> Zero, err |-> SyntaxError]
       ELSE IF el.text = <<>> THEN [val |-> Zero, err |-> Nil]
       ELSE Parsed(ParseFloat(TrimSpace(el.text)))

\* Color.MarshalXML
ColorMarshalXML(c, tag) == EncodeElement(tag, Hex(c))

\* Color.UnmarshalXML
ColorUnmarshalXML(c, el) ==
    LET Decoded(s, col) == IF s.err # Nil THEN [val |-> c, err |-> s.err]
                           ELSE IF col.err # Nil THEN [val |-> c, err |-> col.err]
                           ELSE col
    IN Decoded(DecodeString(el), ParseColor(el.text))

(***************************************************************************)
(* The structs that encoding/xml marshals and unmarshals by reflection     *)
(* (style.go, ExtendedData in placemark.go).  A struct value is a record   *)
(* with its type name and its Go fields; a nil struct pointer is NilStruct *)
(* and a *bool is "nil", "true" or "false".                                *)
(***************************************************************************)
NilStruct == [type |-> "nil"]

\* One field of a struct with its xml tag: mode is "attr", "elem" or
\* "chardata"; shape is "value", "ptr" or "slice".
F(name, xmlName, mode, type, shape, omitempty) ==
    [name |-> name, xml |-> xmlName, mode |-> mode, type |-> type, shape |-> shape,
     omitempty |-> omitempty]

StructTypes == {"Style", "IconStyle", "Icon", "HotSpot", "LabelStyle", "LineStyle",
                "PolyStyle", "BalloonStyle", "StyleMap", "Pair", "ExtendedData", "Data",
                "SchemaData", "SimpleData"}

StructFields(T) ==
    CASE T = "Style" ->
           <<F("ID", "id", "attr", "string", "value", TRUE),
             F("IconStyle", "IconStyle", "elem", "IconStyle", "ptr", TRUE),
             F("LabelStyle", "LabelStyle", "elem", "LabelStyle", "ptr", TRUE),
             F("LineStyle", "LineStyle", "elem", "LineStyle", "ptr", TRUE),
             F("PolyStyle", "PolyStyle", "elem", "PolyStyle", "ptr", TRUE),
             F("BalloonStyle", "BalloonStyle", "elem", "BalloonStyle", "ptr", TRUE)>>
      [] T = "IconStyle" ->
           <<F("Color", "color", "elem", "Color", "value", TRUE),
             F("Scale", "scale", "elem", "float", "value", TRUE),
             F("Heading", "heading", "elem", "float", "value", TRUE),
             F("Icon", "Icon", "elem", "Icon", "ptr", TRUE),
             F("HotSpot", "hotSpot", "elem", "HotSpot", "ptr", TRUE)>>
      [] T = "Icon" -> <<F("Href", "href", "elem", "string", "value", TRUE)>>
      [] T = "HotSpot" ->
           <<F("X", "x", "attr", "float", "value", FALSE),
             F("Y", "y", "attr", "float", "value", FALSE),
             F("XUnits", "xunits", "attr", "string", "value", TRUE),
             F("YUnits", "yunits", "attr", "string", "value", TRUE)>>
      [] T = "LabelStyle" ->
           <<F("Color", "color", "elem", "Color", "value", TRUE),
             F("Scale", "scale", "elem", "float", "value", TRUE)>>
      [] T = "LineStyle" ->
           <<F("Color", "color", "elem", "Color", "value", TRUE),
             F("Width", "width", "elem", "float", "value", TRUE)>>
      [] T = "PolyStyle" ->
           <<F("Color", "color", "elem", "Color", "value", TRUE),
             F("Fill", "fill", "elem", "bool", "ptr", TRUE),
             F("Outline", "outline", "elem", "bool", "ptr", TRUE)>>
      [] T = "BalloonStyle" ->
           <<F("BgColor", "bgColor", "elem", "Color", "value", TRUE),
             F("TextColor", "textColor", "elem", "Color", "value", TRUE),
             F("Text", "text", "elem", "string", "value", TRUE)>>
      [] T = "StyleMap" ->
           <<F("ID", "id", "attr", "string", "value", TRUE),
             F("Pairs", "Pair", "elem", "Pair", "slice", FALSE)>>
      [] T = "Pair" ->
           <<F("Key", "key", "elem", "string", "value", FALSE),
             F("StyleURL", "styleUrl", "elem", "string", "value", FALSE)>>
      [] T = "ExtendedData" ->
           <<F("Data", "Data", "elem", "Data", "slice", TRUE),
             F("SchemaData", "SchemaData", "elem", "SchemaData", "slice", TRUE)>>
      [] T = "Data" ->
           <<F("Name", "name", "attr", "string", "value", FALSE),
             F("DisplayName", "displayName", "elem", "string", "value", TRUE),
             F("Value", "value", "elem", "string", "value", FALSE)>>
      [] T = "SchemaData" ->
           <<F("SchemaURL", "schemaUrl", "attr", "string", "value", TRUE),
             F("SimpleData", "SimpleData", "elem", "SimpleData", "slice", TRUE)>>
      [] T = "SimpleData" ->
           <<F("Name", "name", "attr", "string", "value", FALSE),
             F("Value", "", "chardata", "string", "value", FALSE)>>

\* The zero value of a field.
ZeroValue(f) ==
    IF f.shape = "slice" THEN <<>>
    ELSE IF f.shape = "ptr" THEN (IF f.type = "bool" THEN "nil" ELSE NilStruct)
    ELSE IF f.type = "string" THEN <<>>
    ELSE IF f.type = "float" THEN Zero
    ELSE Color(0, 0, 0, 0)

\* var v T
ZeroStruct(T) ==
    LET Of(fs) == [n \in {"type"} \cup {fs[i].name : i \in 1..Len(fs)} |->
                     IF n = "type" THEN T
                     ELSE ZeroValue(fs[CHOOSE i \in 1..Len(fs) : fs[i].name = n])]
    IN Of(StructFields(T))

IsNilPtr(f, x) == f.shape = "ptr" /\ (IF f.type = "bool" THEN x = "nil" ELSE x.type = "nil")

\* isEmptyValue of encoding/xml: a struct value is never empty.
IsEmptyValue(f, x) ==
    IF f.shape = "slice" THEN x = <<>>
    ELSE IF f.shape = "ptr" THEN IsNilPtr(f, x)
    ELSE IF f.type = "string" THEN x = <<>>
    ELSE IF f.type = "float" THEN x = Zero
    ELSE FALSE

\* The text of a string, float64 or bool as marshalSimple writes it.
SimpleText(f, x) ==
    IF f.type = "string" THEN x
    ELSE IF f.type = "float" THEN FormatG(x)
    ELSE IF x = "true" THEN <<"t", "r", "u", "e">>
    ELSE <<"f", "a", "l", "s", "e">>

\* marshalValue of encoding/xml for a struct: the attributes, then the
\* fields in declaration order (omitempty fields and nil pointers left out,
\* one element per entry of a slice).
RECURSIVE StructMarshal(_, _), MarshalKids(_, _, _), MarshalSlice(_, _, _)
MarshalAttrs(v, fs) ==
    LET RECURSIVE Go(_)
        Go(i) == IF i > Len(fs) THEN <<>>
                 ELSE Opt(fs[i].mode = "attr"
                            /\ ~(fs[i].omitempty /\ IsEmptyValue(fs[i], v[fs[i].name])),
                          EncodeAttr(fs[i].xml, SimpleText(fs[i], v[fs[i].name])))
                      \o Go(i + 1)
    IN Go(1)

MarshalCharData(v, fs) ==
    LET RECURSIVE Go(_)
        Go(i) == IF i > Len(fs) THEN <<>>
                 ELSE (IF fs[i].mode = "chardata" THEN EscapeText(v[fs[i].name]) ELSE <<>>)
                      \o Go(i + 1)
    IN Go(1)

MarshalField(f, x) ==
    IF IsNilPtr(f, x) THEN <<>>
    ELSE IF f.type \in StructTypes THEN <<StructMarshal(x, f.xml)>>
    ELSE IF f.type = "Color" THEN <<ColorMarshalXML(x, f.xml)>>
    ELSE <<EncodeElement(f.xml, SimpleText(f, x))>>

MarshalSlice(f, xs, i) ==
    IF i > Len(xs) THEN <<>>
    ELSE <<StructMarshal(xs[i], f.xml)>> \o MarshalSlice(f, xs, i + 1)

MarshalKids(v, fs, i) ==
    IF i > Len(fs) THEN <<>>
    ELSE (IF fs[i].mode # "elem" \/ (fs[i].omitempty /\ IsEmptyValue(fs[i], v[fs[i].name]))
          THEN <<>>
          ELSE IF fs[i].shape = "slice" THEN MarshalSlice(fs[i], v[fs[i].name], 1)
          ELSE MarshalField(fs[i], v[fs[i].name]))
         \o MarshalKids(v, fs, i + 1)

StructMarshal(v, tag) ==
    LET Of(fs) == Elem(tag, MarshalAttrs(v, fs), MarshalCharData(v, fs), MarshalKids(v, fs, 1))
    IN Of(StructFields(v.type))

\* copyValue of encoding/xml for an attribute value
CopyValue(f, src) ==
    LET Parsed(n) == IF ~n.ok THEN [val |-> Zero, err |-> NumError]
                     ELSE [val |-> n.val, err |-> Nil]
    IN IF f.type = "string" THEN [val |-> src, err |-> Nil]
       ELSE IF src = <<>> THEN [val |-> Zero, err |-> Nil]
       ELSE Parsed(ParseFloat(TrimSpace(src)))

\* The index of the field of the given mode that an xml name selects, 0 if none.
FieldIndex(fs, mode, name) ==
    IF \E i \in 1..Len(fs) : fs[i].mode = mode /\ fs[i].xml = name
    THEN CHOOSE i \in 1..Len(fs) : fs[i].mode = mode /\ fs[i].xml = name
    ELSE 0

\* for _, a := range start.Attr: each attribute is copied into the attr field
\* of its name, if the struct has one.
RECURSIVE UnmarshalAttrs(_, _, _)
UnmarshalAttrs(v, fs, attrs) ==
    IF attrs = <<>> THEN [val |-> v, err |-> Nil]
    ELSE LET Copied(i, c) ==
                 IF i = 0 THEN UnmarshalAttrs(v, fs, Tail(attrs))
                 ELSE IF c.err # Nil THEN [val |-> v, err |-> c.err]
                 ELSE UnmarshalAttrs([v EXCEPT ![fs[i].name] = c.val], fs, Tail(attrs))
         IN Copied(FieldIndex(fs, "attr", Head(attrs).name),
                   CopyValue(fs[FieldIndex(fs, "attr", Head(attrs).name)], Head(attrs).value))

\* d.unmarshal into a struct: attributes, then each child element into the
\* field of its name (a pointer is allocated once and then decoded into again,
\* a slice grows by one), unknown children skipped.
RECURSIVE StructUnmarshal(_, _), UnmarshalKids(_, _, _), UnmarshalField(_, _, _)
UnmarshalField(f, cur, el) ==
    LET Appended(r) == IF r.err # Nil THEN [val |-> cur, err |-> r.err]
                       ELSE [val |-> Append(cur, r.val), err |-> Nil]
    IN IF f.shape = "slice" THEN Appended(StructUnmarshal(ZeroStruct(f.type), el))
       ELSE IF f.type \in StructTypes
       THEN StructUnmarshal(IF cur.type = "nil" THEN ZeroStruct(f.type) ELSE cur, el)
       ELSE IF f.type = "Color" THEN ColorUnmarshalXML(cur, el)
       ELSE IF f.type = "string" THEN DecodeString(el)
       ELSE IF f.type = "float" THEN DecodeFloat(el)
       ELSE DecodeBool(el)

UnmarshalKids(v, fs, kids) ==
    IF kids = <<>> THEN [val |-> v, err |-> Nil]
    ELSE LET Child(el, i, r, skip) ==
                 IF el.tag = SyntaxTag THEN [val |-> v, err |-> SyntaxError]
                 ELSE IF i = 0 THEN [val |-> v, err |-> skip]
                 ELSE IF r.err # Nil THEN [val |-> v, err |-> r.err]
                 ELSE [val |-> [v EXCEPT ![fs[i].name] = r.val], err |-> Nil]
             Then(r) == IF r.err # Nil THEN r ELSE UnmarshalKids(r.val, fs, Tail(kids))
         IN Then(Child(Head(kids),
                       FieldIndex(fs, "elem", Head(kids).tag),
                       UnmarshalField(fs[FieldIndex(fs, "elem", Head(kids).tag)],
                                      v[fs[FieldIndex(fs, "elem", Head(kids).tag)].name],
                                      Head(kids)),
                       Skip(Head(kids))))

StructUnmarshal(v, el) ==
    LET CharData(fs, k, cd) ==
            IF k.err # Nil \/ cd = 0 THEN k
            ELSE [val |-> [k.val EXCEPT ![fs[cd].name] = el.text], err |-> Nil]
        Attrs(fs, a) ==
            IF a.err # Nil THEN a
            ELSE CharData(fs, UnmarshalKids(a.val, fs, el.kids), FieldIndex(fs, "chardata", ""))
        Of(fs) == Attrs(fs, UnmarshalAttrs(v, fs, el.attrs))
    IN Of(StructFields(v.type))

(***************************************************************************)
(* Geometry (geometry.go).                                                 *)
(***************************************************************************)
NoGeometry == [type |-> "nil"]

Point(id, extrude, mode, c) ==
    [type |-> "Point", ID |-> id, Extrude |-> extrude, AltitudeMode |-> mode,
     Coordinates |-> c]

LineString(id, extrude, tessellate, mode, cs) ==
    [type |-> "LineString", ID |-> id, Extrude |-> extrude, Tessellate |-> tessellate,
     AltitudeMode |-> mode, Coordinates |-> cs]

LinearRing(id, extrude, tessellate, mode, cs) ==
    [type |-> "LinearRing", ID |-> id, Extrude |-> extrude, Tessellate |-> tessellate,
     AltitudeMode |-> mode, Coordinates |-> cs]

Polygon(id, extrude, tessellate, mode, outer, inner) ==
    [type |-> "Polygon", ID |-> id, Extrude |-> extrude, Tessellate |-> tessellate,
     AltitudeMode |-> mode, OuterBoundary |-> outer, InnerBoundaries |-> inner]

MultiGeometry(id, gs) == [type |-> "MultiGeometry", ID |-> id, Geometries |-> gs]

\* The zero values the decoders start from (var p Point, var ring LinearRing, ...).
ZeroCoord == Coord(Zero, Zero, Zero)
ZeroPoint == Point(<<>>, FALSE, <<>>, ZeroCoord)
ZeroLineString == LineString(<<>>, FALSE, FALSE, <<>>, <<>>)
ZeroLinearRing == LinearRing(<<>>, FALSE, FALSE, <<>>, <<>>)
ZeroPolygon == Polygon(<<>>, FALSE, FALSE, <<>>, ZeroLinearRing, <<>>)
ZeroMultiGeometry == MultiGeometry(<<>>, <<>>)

GeometryTags == {"Point", "LineString", "LinearRing", "Polygon", "MultiGeometry"}

\* Point.MarshalXML
PointMarshalXML(p) ==
    Elem("Point", <<>>, <<>>,
         Opt(p.ID # <<>>, EncodeElement("id", p.ID))
         \o Opt(p.Extrude, EncodeElement("extrude", <<"1">>))
         \o Opt(p.AltitudeMode # <<>>, EncodeElement("altitudeMode", p.AltitudeMode))
         \o <<EncodeElement("coordinates", CoordinateString(p.Coordinates))>>)

\* LineString.MarshalXML
LineStringMarshalXML(ls) ==
    Elem("LineString", <<>>, <<>>,
         Opt(ls.ID # <<>>, EncodeElement("id", ls.ID))
         \o Opt(ls.Extrude, EncodeElement("extrude", <<"1">>))
         \o Opt(ls.Tessellate, EncodeElement("tessellate", <<"1">>))
         \o Opt(ls.AltitudeMode # <<>>, EncodeElement("altitudeMode", ls.AltitudeMode))
         \o <<EncodeElement("coordinates", coordinatesToString(ls.Coordinates))>>)

\* LinearRing.MarshalXML
LinearRingMarshalXML(lr) ==
    Elem("LinearRing", <<>>, <<>>,
         Opt(lr.ID # <<>>, EncodeElement("id", lr.ID))
         \o Opt(lr.Extrude, EncodeElement("extrude", <<"1">>))
         \o Opt(lr.Tessellate, EncodeElement("tessellate", <<"1">>))
         \o Opt(lr.AltitudeMode # <<>>, EncodeElement("altitudeMode", lr.AltitudeMode))
         \o <<EncodeElement("coordinates", coordinatesToString(lr.Coordinates))>>)

\* Polygon.MarshalXML that writes the inner boundaries before the outer one.
PolygonMarshalXML_InnerFirst(p) ==
    Elem("Polygon", <<>>, <<>>,
         Opt(p.ID # <<>>, EncodeElement("id", p.ID))
         \o Opt(p.Extrude, EncodeElement("extrude", <<"1">>))
         \o Opt(p.Tessellate, EncodeElement("tessellate", <<"1">>))
         \o Opt(p.AltitudeMode # <<>>, EncodeElement("altitudeMode", p.AltitudeMode))
         \o [i \in 1..Len(p.InnerBoundaries) |->
               Elem("innerBoundaryIs", <<>>, <<>>,
                    <<LinearRingMarshalXML(p.InnerBoundaries[i])>>)]
         \o <<Elem("outerBoundaryIs", <<>>, <<>>, <<LinearRingMarshalXML(p.OuterBoundary)>>)>>)

\* Polygon.MarshalXML
PolygonMarshalXML(p) ==
    Elem("Polygon", <<>>, <<>>,
         Opt(p.ID # <<>>, EncodeElement("id", p.ID))
         \o Opt(p.Extrude, EncodeElement("extrude", <<"1">>))
         \o Opt(p.Tessellate, EncodeElement("tessellate", <<"1">>))
         \o Opt(p.AltitudeMode # <<>>, EncodeElement("altitudeMode", p.AltitudeMode))
         \o <<Elem("outerBoundaryIs", <<>>, <<>>, <<LinearRingMarshalXML(p.OuterBoundary)>>)>>
         \o [i \in 1..Len(p.InnerBoundaries) |->
               Elem("innerBoundaryIs", <<>>, <<>>,
                    <<LinearRingMarshalXML(p.InnerBoundaries[i])>>)])

\* e.Encode(geom) for a Geometry: the concrete type's MarshalXML;
\* MultiGeometry.MarshalXML encodes each child this way.
RECURSIVE EncodeGeometry(_)
MultiGeometryMarshalXML(mg) ==
    Elem("MultiGeometry", <<>>, <<>>,
         Opt(mg.ID # <<>>, EncodeElement("id", mg.ID))
         \o [i \in 1..Len(mg.Geometries) |-> EncodeGeometry(mg.Geometries[i])])

EncodeGeometry(g) ==
    CASE g.type = "Point" -> PointMarshalXML(g)
      [] g.type = "LineString" -> LineStringMarshalXML(g)
      [] g.type = "LinearRing" -> LinearRingMarshalXML(g)
      [] g.type = "Polygon" -> PolygonMarshalXML(g)
      [] g.type = "MultiGeometry" -> MultiGeometryMarshalXML(g)

\* The token loop of Point.UnmarshalXML over the element's children.
RECURSIVE PointUnmarshalLoop(_, _)
PointUnmarshalLoop(g, kids) ==
    IF kids = <<>> THEN [val |-> g, err |-> Nil]
    ELSE LET Child(el, int, str, cs, skip) ==
                 IF el.tag = SyntaxTag THEN [val |-> g, err |-> SyntaxError]
                 ELSE IF el.tag = "extrude"
                 THEN IF int.err # Nil THEN [val |-> g, err |-> int.err]
                      ELSE [val |-> [g EXCEPT !.Extrude = (int.val # 0)], err |-> Nil]
                 ELSE IF el.tag \in {"altitudeMode", "gx:altitudeMode"}
                 THEN IF str.err # Nil THEN [val |-> g, err |-> str.err]
                      ELSE [val |-> [g EXCEPT !.AltitudeMode = str.val], err |-> Nil]
                 ELSE IF el.tag = "coordinates"
                 THEN IF str.err # Nil THEN [val |-> g, err |-> str.err]
                      ELSE IF cs.err # Nil THEN [val |-> g, err |-> cs.err]
                      ELSE [val |-> IF Len(cs.coords) > 0
                                     THEN [g EXCEPT !.Coordinates = cs.coords[1]] ELSE g, err |-> Nil]
                 ELSE [val |-> g, err |-> skip]
             Then(r) == IF r.err # Nil THEN r ELSE PointUnmarshalLoop(r.val, Tail(kids))
         IN Then(Child(Head(kids), DecodeInt(Head(kids)), DecodeString(Head(kids)),
                       parseCoordinates(Head(kids).text), Skip(Head(kids))))

\* Point.UnmarshalXML
PointUnmarshalXML(start) ==
    PointUnmarshalLoop([ZeroPoint EXCEPT !.ID = AttrValue(start.attrs, "id", <<>>)], start.kids)

\* The token loop of LineString.UnmarshalXML over the element's children.
RECURSIVE LineStringUnmarshalLoop(_, _)
LineStringUnmarshalLoop(g, kids) ==
    IF kids = <<>> THEN [val |-> g, err |-> Nil]
    ELSE LET Child(el, int, str, cs, skip) ==
                 IF el.tag = SyntaxTag THEN [val |-> g, err |-> SyntaxError]
                 ELSE IF el.tag = "extrude"
                 THEN IF int.err # Nil THEN [val |-> g, err |-> int.err]
                      ELSE [val |-> [g EXCEPT !.Extrude = (int.val # 0)], err |-> Nil]
                 ELSE IF el.tag = "tessellate"
                 THEN IF int.err # Nil THEN [val |-> g, err |-> int.err]
                      ELSE [val |-> [g EXCEPT !.Tessellate = (int.val # 0)], err |-> Nil]
                 ELSE IF el.tag \in {"altitudeMode", "gx:altitudeMode"}
                 THEN IF str.err # Nil THEN [val |-> g, err |-> str.err]
                      ELSE [val |-> [g EXCEPT !.AltitudeMode = str.val], err |-> Nil]
                 ELSE IF el.tag = "coordinates"
                 THEN IF str.err # Nil THEN [val |-> g, err |-> str.err]
                      ELSE IF cs.err # Nil THEN [val |-> g, err |-> cs.err]
                      ELSE [val |-> [g EXCEPT !.Coordinates = cs.coords], err |-> Nil]
                 ELSE [val |-> g, err |-> skip]
             Then(r) == IF r.err # Nil THEN r ELSE LineStringUnmarshalLoop(r.val, Tail(kids))
         IN Then(Child(Head(kids), DecodeInt(Head(kids)), DecodeString(Head(kids)),
                       parseCoordinates(Head(kids).text), Skip(Head(kids))))

\* LineString.UnmarshalXML
LineStringUnmarshalXML(start) ==
    LineStringUnmarshalLoop([ZeroLineString EXCEPT !.ID = AttrValue(start.attrs, "id", <<>>)], start.kids)

\* The token loop of LinearRing.UnmarshalXML over the element's children.
RECURSIVE LinearRingUnmarshalLoop(_, _)
LinearRingUnmarshalLoop(g, kids) ==
    IF kids = <<>> THEN [val |-> g, err |-> Nil]
    ELSE LET Child(el, int, str, cs, skip) ==
                 IF el.tag = SyntaxTag THEN [val |-> g, err |-> SyntaxError]
                 ELSE IF el.tag = "extrude"
                 THEN IF int.err # Nil THEN [val |-> g, err |-> int.err]
                      ELSE [val |-> [g EXCEPT !.Extrude = (int.val # 0)], err |-> Nil]
                 ELSE IF el.tag = "tessellate"
                 THEN IF int.err # Nil THEN [val |-> g, err |-> int.err]
                      ELSE [val |-> [g EXCEPT !.Tessellate = (int.val # 0)], err |-> Nil]
                 ELSE IF el.tag \in {"altitudeMode", "gx:altitudeMode"}
                 THEN IF str.err # Nil THEN [val |-> g, err |-> str.err]
                      ELSE [val |-> [g EXCEPT !.AltitudeMode = str.val], err |-> Nil]
                 ELSE IF el.tag = "coordinates"
                 THEN IF str.err # Nil THEN [val |-> g, err |-> str.err]
                      ELSE IF cs.err # Nil THEN [val |-> g, err |-> cs.err]
                      ELSE [val |-> [g EXCEPT !.Coordinates = cs.coords], err |-> Nil]
                 ELSE [val |-> g, err |-> skip]
             Then(r) == IF r.err # Nil THEN r ELSE LinearRingUnmarshalLoop(r.val, Tail(kids))
         IN Then(Child(Head(kids), DecodeInt(Head(kids)), DecodeString(Head(kids)),
                       parseCoordinates(Head(kids).text), Skip(Head(kids))))

\* LinearRing.UnmarshalXML
LinearRingUnmarshalXML(start) ==
    LinearRingUnmarshalLoop([ZeroLinearRing EXCEPT !.ID = AttrValue(start.attrs, "id", <<>>)], start.kids)

\* The outerBoundaryIs loop that keeps the first LinearRing it has assigned.
RECURSIVE OuterBoundaryLoop_FirstWins(_, _)
OuterBoundaryLoop_FirstWins(p, kids) ==
    IF kids = <<>> THEN [val |-> p, err |-> Nil]
    ELSE LET Child(inner, ring, skip) ==
                 IF inner.tag = SyntaxTag THEN [val |-> p, err |-> SyntaxError]
                 ELSE IF inner.tag = "LinearRing"
                 THEN IF ring.err # Nil THEN [val |-> p, err |-> ring.err]
                      ELSE [val |-> IF p.OuterBoundary # ZeroLinearRing THEN p
                                    ELSE [p EXCEPT !.OuterBoundary = ring.val],
                            err |-> Nil]
                 ELSE [val |-> p, err |-> skip]
             Then(r) == IF r.err # Nil THEN r
                        ELSE OuterBoundaryLoop_FirstWins(r.val, Tail(kids))
         IN Then(Child(Head(kids), LinearRingUnmarshalXML(Head(kids)), Skip(Head(kids))))

\* The loop over the children of an outerBoundaryIs element: every LinearRing
\* found is decoded and assigned to OuterBoundary, anything else is skipped.
RECURSIVE OuterBoundaryLoop(_, _)
OuterBoundaryLoop(p, kids) ==
    IF kids = <<>> THEN [val |-> p, err |-> Nil]
    ELSE LET Child(inner, ring, skip) ==
                 IF inner.tag = SyntaxTag THEN [val |-> p, err |-> SyntaxError]
                 ELSE IF inner.tag = "LinearRing"
                 THEN IF ring.err # Nil THEN [val |-> p, err |-> ring.err]
                      ELSE [val |-> [p EXCEPT !.OuterBoundary = ring.val], err |-> Nil]
                 ELSE [val |-> p, err |-> skip]
             Then(r) == IF r.err # Nil THEN r ELSE OuterBoundaryLoop(r.val, Tail(kids))
         IN Then(Child(Head(kids), LinearRingUnmarshalXML(Head(kids)), Skip(Head(kids))))

\* The loop over the children of an innerBoundaryIs element: every LinearRing
\* found is decoded and appended to InnerBoundaries.
RECURSIVE InnerBoundaryLoop(_, _)
InnerBoundaryLoop(p, kids) ==
    IF kids = <<>> THEN [val |-> p, err |-> Nil]
    ELSE LET Child(inner, ring, skip) ==
                 IF inner.tag = SyntaxTag THEN [val |-> p, err |-> SyntaxError]
                 ELSE IF inner.tag = "LinearRing"
                 THEN IF ring.err # Nil THEN [val |-> p, err |-> ring.err]
                      ELSE [val |-> [p EXCEPT !.InnerBoundaries = Append(@, ring.val)], err |-> Nil]
                 ELSE [val |-> p, err |-> skip]
             Then(r) == IF r.err # Nil THEN r ELSE InnerBoundaryLoop(r.val, Tail(kids))
         IN Then(Child(Head(kids), LinearRingUnmarshalXML(Head(kids)), Skip(Head(kids))))

\* The token loop of Polygon.UnmarshalXML over the element's children.
RECURSIVE PolygonUnmarshalLoop(_, _)
PolygonUnmarshalLoop(p, kids) ==
    IF kids = <<>> THEN [val |-> p, err |-> Nil]
    ELSE LET Child(el, int, str, outer, inner, skip) ==
                 IF el.tag = SyntaxTag THEN [val |-> p, err |-> SyntaxError]
                 ELSE IF el.tag = "extrude"
                 THEN IF int.err # Nil THEN [val |-> p, err |-> int.err]
                      ELSE [val |-> [p EXCEPT !.Extrude = (int.val # 0)], err |-> Nil]
                 ELSE IF el.tag = "tessellate"
                 THEN IF int.err # Nil THEN [val |-> p, err |-> int.err]
                      ELSE [val |-> [p EXCEPT !.Tessellate = (int.val # 0)], err |-> Nil]
                 ELSE IF el.tag \in {"altitudeMode", "gx:altitudeMode"}
                 THEN IF str.err # Nil THEN [val |-> p, err |-> str.err]
                      ELSE [val |-> [p EXCEPT !.AltitudeMode = str.val], err |-> Nil]
                 ELSE IF el.tag = "outerBoundaryIs" THEN outer
                 ELSE IF el.tag = "innerBoundaryIs" THEN inner
                 ELSE [val |-> p, err |-> skip]
             Then(r) == IF r.err # Nil THEN r ELSE PolygonUnmarshalLoop(r.val, Tail(kids))
         IN Then(Child(Head(kids), DecodeInt(Head(kids)), DecodeString(Head(kids)),
                       OuterBoundaryLoop(p, Head(kids).kids),
                       InnerBoundaryLoop(p, Head(kids).kids), Skip(Head(kids))))

\* Polygon.UnmarshalXML
PolygonUnmarshalXML(start) ==
    PolygonUnmarshalLoop([ZeroPolygon EXCEPT !.ID = AttrValue(start.attrs, "id", <<>>)],
                         start.kids)

\* d.DecodeElement(&g, &el) by the element's tag, as MultiGeometry.UnmarshalXML,
\* Placemark.UnmarshalXML and xml.Unmarshal into a concrete geometry type do it.
RECURSIVE DecodeGeometry(_)

\* The MultiGeometry loop without a case for a nested MultiGeometry, which it
\* skips as an unknown element.
RECURSIVE MultiGeometryUnmarshalLoop_NoNesting(_, _)
MultiGeometryUnmarshalLoop_NoNesting(mg, kids) ==
    IF kids = <<>> THEN [val |-> mg, err |-> Nil]
    ELSE LET Child(el, dec, skip) ==
                 IF el.tag = SyntaxTag THEN [val |-> mg, err |-> SyntaxError]
                 ELSE IF el.tag \in GeometryTags \ {"MultiGeometry"}
                 THEN IF dec.err # Nil THEN [val |-> mg, err |-> dec.err]
                      ELSE [val |-> [mg EXCEPT !.Geometries = Append(@, dec.val)], err |-> Nil]
                 ELSE [val |-> mg, err |-> skip]
             Then(r) == IF r.err # Nil THEN r
                        ELSE MultiGeometryUnmarshalLoop_NoNesting(r.val, Tail(kids))
         IN Then(Child(Head(kids), DecodeGeometry(Head(kids)), Skip(Head(kids))))

\* The token loop of MultiGeometry.UnmarshalXML: every child with a geometry
\* tag is decoded by its type's UnmarshalXML and appended to Geometries.
RECURSIVE MultiGeometryUnmarshalLoop(_, _)
MultiGeometryUnmarshalLoop(mg, kids) ==
    IF kids = <<>> THEN [val |-> mg, err |-> Nil]
    ELSE LET Child(el, dec, skip) ==
                 IF el.tag = SyntaxTag THEN [val |-> mg, err |-> SyntaxError]
                 ELSE IF el.tag \in GeometryTags
                 THEN IF dec.err # Nil THEN [val |-> mg, err |-> dec.err]
                      ELSE [val |-> [mg EXCEPT !.Geometries = Append(@, dec.val)], err |-> Nil]
                 ELSE [val |-> mg, err |-> skip]
             Then(r) == IF r.err # Nil THEN r
                        ELSE MultiGeometryUnmarshalLoop(r.val, Tail(kids))
         IN Then(Child(Head(kids), DecodeGeometry(Head(kids)), Skip(Head(kids))))

\* MultiGeometry.UnmarshalXML
MultiGeometryUnmarshalXML(start) ==
    MultiGeometryUnmarshalLoop(
        [ZeroMultiGeometry EXCEPT !.ID = AttrValue(start.attrs, "id", <<>>)], start.kids)

DecodeGeometry(el) ==
    CASE el.tag = "Point" -> PointUnmarshalXML(el)
      [] el.tag = "LineString" -> LineStringUnmarshalXML(el)
      [] el.tag = "LinearRing" -> LinearRingUnmarshalXML(el)
      [] el.tag = "Polygon" -> PolygonUnmarshalXML(el)
      [] el.tag = "MultiGeometry" -> MultiGeometryUnmarshalXML(el)

(***************************************************************************)
(* Features (document.go, placemark.go).  A nil Feature is NoFeature; a    *)
(* *bool Visibility is "nil", "true" or "false".                           *)
(***************************************************************************)
NoFeature == [type |-> "nil"]

Document(id, name, description, open, visibility, styles, styleMaps, features) ==
    [type |-> "Document", ID |-> id, Name |-> name, Description |-> description,
     Open |-> open, Visibility |-> visibility, Styles |-> styles,
     StyleMaps |-> styleMaps, Features |-> features]

Folder(id, name, description, open, visibility, features) ==
    [type |-> "Folder", ID |-> id, Name |-> name, Description |-> description,
     Open |-> open, Visibility |-> visibility, Features |-> features]

Placemark(id, name, description, visibility, styleURL, style, geometry, extendedData) ==
    [type |-> "Placemark", ID |-> id, Name |-> name, Description |-> description,
     Visibility |-> visibility, StyleURL |-> styleURL, Style |-> style,
     Geometry |-> geometry, ExtendedData |-> extendedData]

\* var doc Document, var folder Folder, var placemark Placemark
ZeroDocument == Document(<<>>, <<>>, <<>>, FALSE, "nil", <<>>, <<>>, <<>>)
ZeroFolder == Folder(<<>>, <<>>, <<>>, FALSE, "nil", <<>>)
ZeroPlacemark == Placemark(<<>>, <<>>, <<>>, "nil", <<>>, NilStruct, NoGeometry, NilStruct)

\* The visibility element written only for a true flag, as omitempty would.
VisibilityElem_OmitFalse(v) == Opt(v = "true", EncodeElement("visibility", <<"1">>))

\* if v != nil { vis := 0; if *v { vis = 1 }; e.EncodeElement(vis, "visibility") }
VisibilityElem(v) ==
    Opt(v # "nil", EncodeElement("visibility", IF v = "true" THEN <<"1">> ELSE <<"0">>))

\* Placemark.MarshalXML with the styleUrl element forgotten.
PlacemarkMarshalXML_NoStyleURL(p) ==
    Elem("Placemark", Opt(p.ID # <<>>, EncodeAttr("id", p.ID)), <<>>,
         Opt(p.Name # <<>>, EncodeElement("name", p.Name))
         \o Opt(p.Description # <<>>, EncodeElement("description", p.Description))
         \o VisibilityElem(p.Visibility)
         \o (IF p.Style.type # "nil" THEN <<StructMarshal(p.Style, "Style")>> ELSE <<>>)
         \o (IF p.Geometry.type # "nil" THEN <<EncodeGeometry(p.Geometry)>> ELSE <<>>)
         \o (IF p.ExtendedData.type # "nil"
             THEN <<StructMarshal(p.ExtendedData, "ExtendedData")>> ELSE <<>>))

\* Placemark.MarshalXML
PlacemarkMarshalXML(p) ==
    Elem("Placemark", Opt(p.ID # <<>>, EncodeAttr("id", p.ID)), <<>>,
         Opt(p.Name # <<>>, EncodeElement("name", p.Name))
         \o Opt(p.Description # <<>>, EncodeElement("description", p.Description))
         \o VisibilityElem(p.Visibility)
         \o Opt(p.StyleURL # <<>>, EncodeElement("styleUrl", p.StyleURL))
         \o (IF p.Style.type # "nil" THEN <<StructMarshal(p.Style, "Style")>> ELSE <<>>)
         \o (IF p.Geometry.type # "nil" THEN <<EncodeGeometry(p.Geometry)>> ELSE <<>>)
         \o (IF p.ExtendedData.type # "nil"
             THEN <<StructMarshal(p.ExtendedData, "ExtendedData")>> ELSE <<>>))

\* The switch on the concrete type of a Feature in KML.MarshalXML,
\* Document.MarshalXML and Folder.MarshalXML: a nil entry writes nothing.
RECURSIVE EncodeFeature(_), EncodeFeatures(_)
\* Document.MarshalXML that writes open the way it writes visibility, as 0
\* or 1.
DocumentMarshalXML_OpenZero(d) ==
    Elem("Document", Opt(d.ID # <<>>, EncodeAttr("id", d.ID)), <<>>,
         Opt(d.Name # <<>>, EncodeElement("name", d.Name))
         \o Opt(d.Description # <<>>, EncodeElement("description", d.Description))
         \o <<EncodeElement("open", IF d.Open THEN <<"1">> ELSE <<"0">>)>>
         \o VisibilityElem(d.Visibility)
         \o [i \in 1..Len(d.Styles) |-> StructMarshal(d.Styles[i], "Style")]
         \o [i \in 1..Len(d.StyleMaps) |-> StructMarshal(d.StyleMaps[i], "StyleMap")]
         \o EncodeFeatures(d.Features))

\* Document.MarshalXML
DocumentMarshalXML(d) ==
    Elem("Document", Opt(d.ID # <<>>, EncodeAttr("id", d.ID)), <<>>,
         Opt(d.Name # <<>>, EncodeElement("name", d.Name))
         \o Opt(d.Description # <<>>, EncodeElement("description", d.Description))
         \o Opt(d.Open, EncodeElement("open", <<"1">>))
         \o VisibilityElem(d.Visibility)
         \o [i \in 1..Len(d.Styles) |-> StructMarshal(d.Styles[i], "Style")]
         \o [i \in 1..Len(d.StyleMaps) |-> StructMarshal(d.StyleMaps[i], "StyleMap")]
         \o EncodeFeatures(d.Features))

\* Folder.MarshalXML
FolderMarshalXML(f) ==
    Elem("Folder", Opt(f.ID # <<>>, EncodeAttr("id", f.ID)), <<>>,
         Opt(f.Name # <<>>, EncodeElement("name", f.Name))
         \o Opt(f.Description # <<>>, EncodeElement("description", f.Description))
         \o Opt(f.Open, EncodeElement("open", <<"1">>))
         \o VisibilityElem(f.Visibility)
         \o EncodeFeatures(f.Features))

EncodeFeature(f) ==
    CASE f.type = "Document" -> <<DocumentMarshalXML(f)>>
      [] f.type = "Folder" -> <<FolderMarshalXML(f)>>
      [] f.type = "Placemark" -> <<PlacemarkMarshalXML(f)>>
      [] OTHER -> <<>>

EncodeFeatures(fs) ==
    IF fs = <<>> THEN <<>> ELSE EncodeFeature(Head(fs)) \o EncodeFeatures(Tail(fs))

\* The Placemark loop that keeps the first geometry it has assigned.
RECURSIVE PlacemarkUnmarshalLoop_FirstGeometry(_, _)
PlacemarkUnmarshalLoop_FirstGeometry(p, kids) ==
    IF kids = <<>> THEN [val |-> p, err |-> Nil]
    ELSE LET Child(el, str, int, style, g, ext, skip) ==
                 IF el.tag = SyntaxTag THEN [val |-> p, err |-> SyntaxError]
                 ELSE IF el.tag = "name"
                 THEN IF str.err # Nil THEN [val |-> p, err |-> str.err]
                      ELSE [val |-> [p EXCEPT !.Name = str.val], err |-> Nil]
                 ELSE IF el.tag = "description"
                 THEN IF str.err # Nil THEN [val |-> p, err |-> str.err]
                      ELSE [val |-> [p EXCEPT !.Description = str.val], err |-> Nil]
                 ELSE IF el.tag = "visibility"
                 THEN IF int.err # Nil THEN [val |-> p, err |-> int.err]
                      ELSE [val |-> [p EXCEPT !.Visibility =
                                         IF int.val # 0 THEN "true" ELSE "false"],
                            err |-> Nil]
                 ELSE IF el.tag = "styleUrl"
                 THEN IF str.err # Nil THEN [val |-> p, err |-> str.err]
                      ELSE [val |-> [p EXCEPT !.StyleURL = str.val], err |-> Nil]
                 ELSE IF el.tag = "Style"
                 THEN IF style.err # Nil THEN [val |-> p, err |-> style.err]
                      ELSE [val |-> [p EXCEPT !.Style = style.val], err |-> Nil]
                 ELSE IF el.tag \in GeometryTags
                 THEN IF g.err # Nil THEN [val |-> p, err |-> g.err]
                      ELSE [val |-> IF p.Geometry.type # "nil" THEN p
                                    ELSE [p EXCEPT !.Geometry = g.val],
                            err |-> Nil]
                 ELSE IF el.tag = "ExtendedData"
                 THEN IF ext.err # Nil THEN [val |-> p, err |-> ext.err]
                      ELSE [val |-> [p EXCEPT !.ExtendedData = ext.val], err |-> Nil]
                 ELSE [val |-> p, err |-> skip]
             Then(r) == IF r.err # Nil THEN r ELSE PlacemarkUnmarshalLoop_FirstGeometry(r.val, Tail(kids))
         IN Then(Child(Head(kids), DecodeString(Head(kids)), DecodeInt(Head(kids)),
                       StructUnmarshal(ZeroStruct("Style"), Head(kids)),
                       DecodeGeometry(Head(kids)),
                       StructUnmarshal(ZeroStruct("ExtendedData"), Head(kids)),
                       Skip(Head(kids))))

\* The token loop of Placemark.UnmarshalXML over the element's children.
RECURSIVE PlacemarkUnmarshalLoop(_, _)
PlacemarkUnmarshalLoop(p, kids) ==
    IF kids = <<>> THEN [val |-> p, err |-> Nil]
    ELSE LET Child(el, str, int, style, g, ext, skip) ==
                 IF el.tag = SyntaxTag THEN [val |-> p, err |-> SyntaxError]
                 ELSE IF el.tag = "name"
                 THEN IF str.err # Nil THEN [val |-> p, err |-> str.err]
                      ELSE [val |-> [p EXCEPT !.Name = str.val], err |-> Nil]
                 ELSE IF el.tag = "description"
                 THEN IF str.err # Nil THEN [val |-> p, err |-> str.err]
                      ELSE [val |-> [p EXCEPT !.Description = str.val], err |-> Nil]
                 ELSE IF el.tag = "visibility"
                 THEN IF int.err # Nil THEN [val |-> p, err |-> int.err]
                      ELSE [val |-> [p EXCEPT !.Visibility =
                                         IF int.val # 0 THEN "true" ELSE "false"],
                            err |-> Nil]
                 ELSE IF el.tag = "styleUrl"
                 THEN IF str.err # Nil THEN [val |-> p, err |-> str.err]
                      ELSE [val |-> [p EXCEPT !.StyleURL = str.val], err |-> Nil]
                 ELSE IF el.tag = "Style"
                 THEN IF style.err # Nil THEN [val |-> p, err |-> style.err]
                      ELSE [val |-> [p EXCEPT !.Style = style.val], err |-> Nil]
                 ELSE IF el.tag \in GeometryTags
                 THEN IF g.err # Nil THEN [val |-> p, err |-> g.err]
                      ELSE [val |-> [p EXCEPT !.Geometry = g.val], err |-> Nil]
                 ELSE IF el.tag = "ExtendedData"
                 THEN IF ext.err # Nil THEN [val |-> p, err |-> ext.err]
                      ELSE [val |-> [p EXCEPT !.ExtendedData = ext.val], err |-> Nil]
                 ELSE [val |-> p, err |-> skip]
             Then(r) == IF r.err # Nil THEN r ELSE PlacemarkUnmarshalLoop(r.val, Tail(kids))
         IN Then(Child(Head(kids), DecodeString(Head(kids)), DecodeInt(Head(kids)),
                       StructUnmarshal(ZeroStruct("Style"), Head(kids)),
                       DecodeGeometry(Head(kids)),
                       StructUnmarshal(ZeroStruct("ExtendedData"), Head(kids)),
                       Skip(Head(kids))))

\* Placemark.UnmarshalXML
PlacemarkUnmarshalXML(start) ==
    PlacemarkUnmarshalLoop([ZeroPlacemark EXCEPT !.ID = AttrValue(start.attrs, "id", <<>>)],
                           start.kids)

\* The token loops of Document.UnmarshalXML and Folder.UnmarshalXML over the
\* element's children; each nested feature is decoded by its own UnmarshalXML.
RECURSIVE DocumentUnmarshalLoop(_, _), FolderUnmarshalLoop(_, _), DecodeFeature(_)
DocumentUnmarshalLoop(d, kids) ==
    IF kids = <<>> THEN [val |-> d, err |-> Nil]
    ELSE LET Child(el, str, int, style, styleMap, f, skip) ==
                 IF el.tag = SyntaxTag THEN [val |-> d, err |-> SyntaxError]
                 ELSE IF el.tag = "name"
                 THEN IF str.err # Nil THEN [val |-> d, err |-> str.err]
                      ELSE [val |-> [d EXCEPT !.Name = str.val], err |-> Nil]
                 ELSE IF el.tag = "description"
                 THEN IF str.err # Nil THEN [val |-> d, err |-> str.err]
                      ELSE [val |-> [d EXCEPT !.Description = str.val], err |-> Nil]
                 ELSE IF el.tag = "open"
                 THEN IF int.err # Nil THEN [val |-> d, err |-> int.err]
                      ELSE [val |-> [d EXCEPT !.Open = (int.val # 0)], err |-> Nil]
                 ELSE IF el.tag = "visibility"
                 THEN IF int.err # Nil THEN [val |-> d, err |-> int.err]
                      ELSE [val |-> [d EXCEPT !.Visibility =
                                         IF int.val # 0 THEN "true" ELSE "false"],
                            err |-> Nil]
                 ELSE IF el.tag = "Style"
                 THEN IF style.err # Nil THEN [val |-> d, err |-> style.err]
                      ELSE [val |-> [d EXCEPT !.Styles = Append(@, style.val)], err |-> Nil]
                 ELSE IF el.tag = "StyleMap"
                 THEN IF styleMap.err # Nil THEN [val |-> d, err |-> styleMap.err]
                      ELSE [val |-> [d EXCEPT !.StyleMaps = Append(@, styleMap.val)], err |-> Nil]
                 ELSE IF el.tag \in {"Document", "Folder", "Placemark"}
                 THEN IF f.err # Nil THEN [val |-> d, err |-> f.err]
                      ELSE [val |-> [d EXCEPT !.Features = Append(@, f.val)], err |-> Nil]
                 ELSE [val |-> d, err |-> skip]
             Then(r) == IF r.err # Nil THEN r ELSE DocumentUnmarshalLoop(r.val, Tail(kids))
         IN Then(Child(Head(kids), DecodeString(Head(kids)), DecodeInt(Head(kids)),
                       StructUnmarshal(ZeroStruct("Style"), Head(kids)),
                       StructUnmarshal(ZeroStruct("StyleMap"), Head(kids)),
                       DecodeFeature(Head(kids)), Skip(Head(kids))))

FolderUnmarshalLoop(f, kids) ==
    IF kids = <<>> THEN [val |-> f, err |-> Nil]
    ELSE LET Child(el, str, int, sub, skip) ==
                 IF el.tag = SyntaxTag THEN [val |-> f, err |-> SyntaxError]
                 ELSE IF el.tag = "name"
                 THEN IF str.err # Nil THEN [val |-> f, err |-> str.err]
                      ELSE [val |-> [f EXCEPT !.Name = str.val], err |-> Nil]
                 ELSE IF el.tag = "description"
                 THEN IF str.err # Nil THEN [val |-> f, err |-> str.err]
                      ELSE [val |-> [f EXCEPT !.Description = str.val], err |-> Nil]
                 ELSE IF el.tag = "open"
                 THEN IF int.err # Nil THEN [val |-> f, err |-> int.err]
                      ELSE [val |-> [f EXCEPT !.Open = (int.val # 0)], err |-> Nil]
                 ELSE IF el.tag = "visibility"
                 THEN IF int.err # Nil THEN [val |-> f, err |-> int.err]
                      ELSE [val |-> [f EXCEPT !.Visibility =
                                         IF int.val # 0 THEN "true" ELSE "false"],
                            err |-> Nil]
                 ELSE IF el.tag \in {"Document", "Folder", "Placemark"}
                 THEN IF sub.err # Nil THEN [val |-> f, err |-> sub.err]
                      ELSE [val |-> [f EXCEPT !.Features = Append(@, sub.val)], err |-> Nil]
                 ELSE [val |-> f, err |-> skip]
             Then(r) == IF r.err # Nil THEN r ELSE FolderUnmarshalLoop(r.val, Tail(kids))
         IN Then(Child(Head(kids), DecodeString(Head(kids)), DecodeInt(Head(kids)),
                       DecodeFeature(Head(kids)), Skip(Head(kids))))

\* Document.UnmarshalXML
DocumentUnmarshalXML(start) ==
    DocumentUnmarshalLoop([ZeroDocument EXCEPT !.ID = AttrValue(start.attrs, "id", <<>>)],
                          start.kids)

\* Folder.UnmarshalXML
FolderUnmarshalXML(start) ==
    FolderUnmarshalLoop([ZeroFolder EXCEPT !.ID = AttrValue(start.attrs, "id", <<>>)],
                        start.kids)

\* d.DecodeElement(&doc / &folder / &placemark, &tok) by the element's tag
DecodeFeature(el) ==
    CASE el.tag = "Document" -> DocumentUnmarshalXML(el)
      [] el.tag = "Folder" -> FolderUnmarshalXML(el)
      [] el.tag = "Placemark" -> PlacemarkUnmarshalXML(el)

(***************************************************************************)
(* The kml envelope (kml.go).  A document is the text before the root      *)
(* element, the root element and the text after it; NoNode as the root is  *)
(* an input without any element.                                           *)
(***************************************************************************)
\* The URI is held as one unit of text.
DefaultNamespace == <<"http://www.opengis.net/kml/2.2">>

XMLHeader == "<?xml version=\"1.0\" encoding=\"UTF-8\"?>\n"

NoNode == [tag |-> "", attrs |-> <<>>, text |-> <<>>, kids |-> <<>>]

Doc(prolog, root, epilog) == [prolog |-> prolog, root |-> root, epilog |-> epilog]

NoDoc == Doc("", NoNode, "")

KML(xmlns, feature) == [Xmlns |-> xmlns, Feature |-> feature]

\* NewKML
NewKML == KML(DefaultNamespace, NoFeature)

\* *ParseError; nothing in the package sets Line or Column.
ParseError(msg, cause) ==
    [kind |-> "ParseError", msg |-> msg, cause |-> cause, Line |-> 0, Column |-> 0]

\* io.EOF
EOF == ErrorsNew("EOF")

\* KML.MarshalXML without the *Placemark case of its type switch.
KMLMarshalXML_NoPlacemark(k) ==
    Elem("kml",
         <<EncodeAttr("xmlns", IF k.Xmlns = <<>> THEN DefaultNamespace ELSE k.Xmlns)>>,
         <<>>,
         IF k.Feature.type = "Placemark" THEN <<>> ELSE EncodeFeature(k.Feature))

\* KML.MarshalXML
KMLMarshalXML(k) ==
    Elem("kml",
         <<EncodeAttr("xmlns", IF k.Xmlns = <<>> THEN DefaultNamespace ELSE k.Xmlns)>>,
         <<>>,
         EncodeFeature(k.Feature))

\* The token loop of KML.UnmarshalXML over the children of the root element.
RECURSIVE KMLUnmarshalLoop(_, _)
KMLUnmarshalLoop(k, kids) ==
    IF kids = <<>> THEN [val |-> k, err |-> Nil]
    ELSE LET Child(el, f, skip) ==
                 IF el.tag = SyntaxTag
                 THEN [val |-> k, err |-> ParseError("error reading KML document", SyntaxError)]
                 ELSE IF el.tag \in {"Document", "Folder", "Placemark"}
                 THEN IF f.err # Nil
                      THEN [val |-> k,
                            err |-> ParseError("error parsing " \o el.tag \o " element", f.err)]
                      ELSE [val |-> [k EXCEPT !.Feature = f.val], err |-> Nil]
                 ELSE [val |-> k, err |-> skip]
             Then(r) == IF r.err # Nil THEN r ELSE KMLUnmarshalLoop(r.val, Tail(kids))
         IN Then(Child(Head(kids), DecodeFeature(Head(kids)), Skip(Head(kids))))

\* KML.UnmarshalXML without the default for a missing or empty namespace.
KMLUnmarshalXML_NoDefault(start) ==
    KMLUnmarshalLoop(KML(AttrValue(start.attrs, "xmlns", <<>>), NoFeature), start.kids)

\* KML.UnmarshalXML
KMLUnmarshalXML(start) ==
    KMLUnmarshalLoop(KML(IF AttrValue(start.attrs, "xmlns", <<>>) = <<>> THEN DefaultNamespace
                         ELSE AttrValue(start.attrs, "xmlns", <<>>),
                         NoFeature),
                     start.kids)

\* The nil *KML that Parse returns with an error.
NoKML == KML(<<>>, NoFeature)

\* Parse without the check that the document holds a feature.
Parse_NoEmptyCheck(doc) ==
    LET Decoded(r) ==
            IF r.err # Nil
            THEN [k |-> NoKML,
                  err |-> IF r.err.kind = "ParseError" THEN r.err
                          ELSE ParseError("error decoding KML document", r.err)]
            ELSE [k |-> r.val, err |-> Nil]
    IN IF doc.root = NoNode
       THEN [k |-> NoKML, err |-> ParseError("error decoding KML document", EOF)]
       ELSE IF doc.root.tag = SyntaxTag
       THEN [k |-> NoKML, err |-> ParseError("error decoding KML document", SyntaxError)]
       ELSE Decoded(KMLUnmarshalXML(doc.root))

\* Parse that returns the decoder's error as it is, without wrapping it.
Parse_NoWrap(doc) ==
    LET Decoded(r) ==
            IF r.err # Nil THEN [k |-> NoKML, err |-> r.err]
            ELSE IF r.val.Feature.type = "nil" THEN [k |-> NoKML, err |-> ErrEmptyDocument]
            ELSE [k |-> r.val, err |-> Nil]
    IN IF doc.root = NoNode
       THEN [k |-> NoKML, err |-> EOF]
       ELSE IF doc.root.tag = SyntaxTag
       THEN [k |-> NoKML, err |-> SyntaxError]
       ELSE Decoded(KMLUnmarshalXML(doc.root))

\* Parse: decoder.Decode(&k) finds the first start element and hands it to
\* KML.UnmarshalXML; an error that is not a *ParseError is wrapped in one.
Parse(doc) ==
    LET Decoded(r) ==
            IF r.err # Nil
            THEN [k |-> NoKML,
                  err |-> IF r.err.kind = "ParseError" THEN r.err
                          ELSE ParseError("error decoding KML document", r.err)]
            ELSE IF r.val.Feature.type = "nil" THEN [k |-> NoKML, err |-> ErrEmptyDocument]
            ELSE [k |-> r.val, err |-> Nil]
    IN IF doc.root = NoNode
       THEN [k |-> NoKML, err |-> ParseError("error decoding KML document", EOF)]
       ELSE IF doc.root.tag = SyntaxTag
       THEN [k |-> NoKML, err |-> ParseError("error decoding KML document", SyntaxError)]
       ELSE Decoded(KMLUnmarshalXML(doc.root))

\* ParseBytes
ParseBytes(data) == Parse(data)

\* KML.Write that ends with the closing tag, without the final newline.
Write_NoNewline(k) == Doc(XMLHeader, KMLMarshalXML(k), "")

\* KML.Write: the XML declaration, the encoded document, a final newline.
Write(k) == Doc(XMLHeader, KMLMarshalXML(k), "\n")

\* KML.Bytes
Bytes(k) == Write(k)

(***************************************************************************)
(* Values of the variables that a specification leaves alone.              *)
(***************************************************************************)
NoColorRes == [val |-> Color(0, 0, 0, 0), err |-> Nil]
NoCoordRes == [coords |-> <<>>, err |-> Nil]
NoGeomRes == [val |-> NoGeometry, err |-> Nil]
NoParsed == [k |-> NoKML, err |-> Nil]
NoWalk ==
    [fn |-> [lit |-> ""], calls |-> <<>>, err |-> Nil, result |-> <<>>, hasCoords |-> FALSE,
     sw |-> ZeroCoord, ne |-> ZeroCoord, spare |-> <<>>]
NoHeap ==
    [objs |-> <<>>, arrays |-> <<>>, subs |-> <<>>, root |-> 0, builders |-> <<>>,
     log |-> <<>>, ret |-> 0, calls |-> 0]

IdleColor == color = Color(0, 0, 0, 0) /\ colorText = <<>> /\ colorRes = NoColorRes
IdleCoord == coords = <<>> /\ coordText = <<>> /\ coordRes = NoCoordRes
IdleGeom == geom = NoGeometry /\ geomXml = NoNode /\ geomRes = NoGeomRes
IdleDoc == kml = NoKML /\ xml = NoDoc /\ base = NoDoc /\ parsed = NoParsed
IdleWalk == walk = NoWalk
IdleHeap == heap = NoHeap

colorVars == <<color, colorText, colorRes>>
coordVars == <<coords, coordText, coordRes>>
geomVars == <<geom, geomXml, geomRes>>
docVars == <<kml, xml, base, parsed>>

(***************************************************************************)
(* SpecColor: a caller formats a Color, parses a text, or parses what it   *)
(* formatted.                                                              *)
(***************************************************************************)
ChannelSamples == {0, 1, 15, 16, 32, 64, 128, 192, 255}
Colors == {Color(a, b, g, r) : a \in {0, 15, 128, 255}, b \in ChannelSamples,
                               g \in {0, 1, 16, 192, 255}, r \in ChannelSamples}

ColorChars == {"0", "9", "a", "F", "g", " "}
HexPairs == {<<"0", "0">>, <<"f", "f">>, <<"8", "A">>, <<"C", "0">>, <<"g", "0">>,
             <<"0", "x">>, <<"-", "1">>}
ColorTexts ==
    SeqsUpTo(ColorChars, MaxRawText)
    \cup {a \o b \o c \o d : a \in HexPairs, b \in HexPairs, c \in HexPairs, d \in HexPairs}
    \cup {a \o b \o c \o d \o e : a \in {<<"0", "0">>}, b \in HexPairs, c \in {<<"1", "2">>},
                                  d \in HexPairs, e \in {<<"0">>, <<"f", "f">>, <<" ">>}}

InitColor ==
    /\ pc = "init"
    /\ \/ color \in Colors /\ colorText = <<>>
       \/ color = Color(0, 0, 0, 0) /\ colorText \in ColorTexts
    /\ colorRes = NoColorRes
    /\ IdleCoord /\ IdleGeom /\ IdleDoc /\ IdleWalk /\ IdleHeap

\* c.Hex()
CallHex ==
    /\ pc = "init"
    /\ colorText' = Hex(color)
    /\ pc' = "Hex"
    /\ UNCHANGED <<color, colorRes, coordVars, geomVars, docVars, walk, heap>>

\* ParseColor(text), of a caller's text or of what Hex returned.
CallParseColor ==
    /\ pc \in {"init", "Hex"}
    /\ colorRes' = ParseColor(colorText)
    /\ pc' = IF pc = "Hex" THEN "Hex;ParseColor" ELSE "ParseColor"
    /\ UNCHANGED <<color, colorText, coordVars, geomVars, docVars, walk, heap>>

NextColor == CallHex \/ CallParseColor

SpecColor == InitColor /\ [][NextColor]_vars

(***************************************************************************)
(* SpecCoord: a caller formats coordinates, parses a text, or parses what  *)
(* it formatted.                                                           *)
(***************************************************************************)
NumSamples == {Zero, Num(1, 0), Num(-2, 0), Num(15, -1), Num(-122087461, -6),
               Num(1, 6), Num(1234567, 0), Num(1, -5), Num(100, 0), Num(5, -2)}
AllCoords == {Coord(lon, lat, alt) : lon \in NumSamples, lat \in NumSamples,
                                     alt \in NumSamples}
CoordSamples == {Coord(Num(1, 0), Num(2, 0), Zero),
                 Coord(Num(-122087461, -6), Num(37422069, -6), Zero),
                 Coord(Num(15, -1), Num(-2, 0), Num(100, 0)),
                 Coord(Zero, Zero, Num(1, 6))}
CoordLists == SeqsUpTo(CoordSamples, MaxTuples)

CoordChars == {"1", ".", "-", ",", " ", "x", "e"}
TupleTexts == {<<"1", ",", "2">>, <<"1", ",", "2", ",", "3">>, <<"1">>,
               <<"1", ",", "2", ",", "3", ",", "4">>, <<"x", ",", "2">>,
               <<"1", ",", "x">>, <<"1", ",", "2", ",", "x">>, <<"1", ",">>,
               <<",", "1">>, <<"1", ",", "2", ",">>,
               <<"-", "1", ".", "5", ",", "2", "e", "1">>,
               <<"1", ".", "0", ",", "2", ".", "0", ",", "0">>}
Separators == {<<" ">>, <<"\n", " ", "\t">>}
Paddings == {<<>>, <<" ", "\n">>}

RECURSIVE TupleTextLists(_)
TupleTextLists(n) ==
    IF n = 1 THEN TupleTexts
    ELSE TupleTextLists(n - 1)
         \cup {l \o sep \o t : l \in TupleTextLists(n - 1), sep \in Separators,
                               t \in TupleTexts}

CoordTexts ==
    SeqsUpTo(CoordChars, MaxRawText)
    \cup {a \o l \o b : a \in Paddings, l \in TupleTextLists(MaxTuples), b \in Paddings}

InitCoord ==
    /\ pc = "init"
    /\ \/ coords \in ({<<c>> : c \in AllCoords} \cup CoordLists) /\ coordText = <<>>
       \/ coords = <<>> /\ coordText \in CoordTexts
    /\ coordRes = NoCoordRes
    /\ IdleColor /\ IdleGeom /\ IdleDoc /\ IdleWalk /\ IdleHeap

\* c.String() of a single coordinate
CallString ==
    /\ pc = "init"
    /\ Len(coords) = 1
    /\ coordText' = CoordinateString(coords[1])
    /\ pc' = "String"
    /\ UNCHANGED <<coords, coordRes, colorVars, geomVars, docVars, walk, heap>>

\* coordinatesToString(coords) of a list
CallCoordinatesToString ==
    /\ pc = "init"
    /\ coordText' = coordinatesToString(coords)
    /\ pc' = "coordinatesToString"
    /\ UNCHANGED <<coords, coordRes, colorVars, geomVars, docVars, walk, heap>>

\* ParseCoordinates(text), of a caller's text or of what was formatted.
CallParseCoordinates ==
    /\ pc \in {"init", "String", "coordinatesToString"}
    /\ coordRes' = ParseCoordinates(coordText)
    /\ pc' = IF pc = "init" THEN "ParseCoordinates" ELSE pc \o ";ParseCoordinates"
    /\ UNCHANGED <<coords, coordText, colorVars, geomVars, docVars, walk, heap>>

NextCoord == CallString \/ CallCoordinatesToString \/ CallParseCoordinates

SpecCoord == InitCoord /\ [][NextCoord]_vars

(***************************************************************************)
(* SpecGeom: a caller marshals a geometry with xml.Marshal and unmarshals  *)
(* the result with xml.Unmarshal, as the package's geometry tests do.      *)
(***************************************************************************)
Ids == {<<>>, <<"g", "1">>}
AltitudeModeAbsolute == <<"a", "b", "s", "o", "l", "u", "t", "e">>
AltitudeModes == {<<>>, AltitudeModeAbsolute}

PointInputs ==
    {Point(id, ex, mode, c) : id \in Ids, ex \in BOOLEAN, mode \in AltitudeModes,
                              c \in CoordSamples}

LineStringInputs ==
    {LineString(id, ex, te, mode, cs) : id \in Ids, ex \in BOOLEAN, te \in BOOLEAN,
                                        mode \in AltitudeModes, cs \in CoordLists}

LinearRingInputs ==
    {LinearRing(id, ex, te, mode, cs) : id \in Ids, ex \in BOOLEAN, te \in BOOLEAN,
                                        mode \in AltitudeModes, cs \in CoordLists}

Square == <<Coord(Zero, Zero, Zero), Coord(Num(1, 0), Zero, Zero),
            Coord(Num(1, 0), Num(1, 0), Zero), Coord(Zero, Zero, Zero)>>
Hole == <<Coord(Num(5, -1), Num(5, -1), Num(100, 0)),
          Coord(Num(5, -1), Num(5, -2), Num(100, 0))>>
RingSamples == {LinearRing(<<>>, FALSE, FALSE, <<>>, Square),
                LinearRing(<<"g", "1">>, FALSE, TRUE, <<>>, Hole),
                LinearRing(<<>>, TRUE, FALSE, AltitudeModeAbsolute, <<>>)}

PolygonInputs ==
    {Polygon(id, fl[1], fl[2], mode, outer, inner) :
        id \in Ids, fl \in {<<FALSE, FALSE>>, <<TRUE, FALSE>>, <<FALSE, TRUE>>},
        mode \in AltitudeModes, outer \in RingSamples,
        inner \in SeqsUpTo(RingSamples, MaxGeoms)}

GeometrySamples ==
    {Point(<<>>, FALSE, <<>>, Coord(Num(1, 0), Num(2, 0), Zero)),
     Point(<<"g", "1">>, TRUE, AltitudeModeAbsolute, Coord(Num(15, -1), Num(-2, 0), Num(100, 0))),
     LineString(<<>>, FALSE, TRUE, <<>>, Square),
     LinearRing(<<>>, FALSE, FALSE, <<>>, Hole),
     Polygon(<<>>, TRUE, FALSE, <<>>, LinearRing(<<>>, FALSE, FALSE, <<>>, Square),
             <<LinearRing(<<>>, FALSE, FALSE, <<>>, Hole)>>),
     MultiGeometry(<<>>, <<>>),
     MultiGeometry(<<"g", "1">>,
                   <<Point(<<>>, FALSE, <<>>, Coord(Num(1, 0), Num(2, 0), Zero)),
                     MultiGeometry(<<>>, <<LineString(<<>>, FALSE, FALSE, <<>>, Hole)>>)>>)}

MultiGeometryInputs ==
    {MultiGeometry(id, gs) : id \in Ids, gs \in SeqsUpTo(GeometrySamples, MaxGeoms)}

GeomInputs ==
    PointInputs \cup LineStringInputs \cup LinearRingInputs \cup PolygonInputs
    \cup MultiGeometryInputs

InitGeom ==
    /\ pc = "init"
    /\ geom \in GeomInputs
    /\ geomXml = NoNode
    /\ geomRes = NoGeomRes
    /\ IdleColor /\ IdleCoord /\ IdleDoc /\ IdleWalk /\ IdleHeap

\* xml.Marshal(geom)
CallMarshal ==
    /\ pc = "init"
    /\ geomXml' = EncodeGeometry(geom)
    /\ pc' = "Marshal"
    /\ UNCHANGED <<geom, geomRes, colorVars, coordVars, docVars, walk, heap>>

\* xml.Unmarshal(data, &g) into a value of the type that was marshalled
CallUnmarshal ==
    /\ pc \in {"Marshal", "received"}
    /\ geomRes' = DecodeGeometry(geomXml)
    /\ pc' = pc \o ";Unmarshal"
    /\ UNCHANGED <<geom, geomXml, colorVars, coordVars, docVars, walk, heap>>

NextGeom == CallMarshal \/ CallUnmarshal

SpecGeom == InitGeom /\ [][NextGeom]_vars

(***************************************************************************)
(* Claims about the geometry codec (checked under SpecGeom).               *)
(***************************************************************************)
\* C2: for every geometry of the five variants, decoding the encoder's output
\* yields a geometry of the same variant with the same id, extrude flag,
\* tessellate flag, altitudeMode and coordinate lists.
C2_GeometryRoundTrip ==
    pc = "Marshal;Unmarshal" => geomRes.err = Nil /\ geomRes.val = geom

(***************************************************************************)
(* Claims about the colour codec (checked under SpecColor).                *)
(***************************************************************************)
ColorTextMalformed(s) == Len(s) # 8 \/ \E i \in 1..Len(s) : ~IsHex(s[i])

\* C5: ParseColor fails exactly when the text is not 8 characters long or holds
\* a non-hexadecimal character, and the error it returns matches
\* ErrInvalidColor under errors.Is.
C5_ParseColorFailsWithErrInvalidColor ==
    pc \in {"ParseColor", "Hex;ParseColor"} =>
        /\ (colorRes.err # Nil) <=> ColorTextMalformed(colorText)
        /\ colorRes.err # Nil => ErrorsIs(colorRes.err, ErrInvalidColor)

\* C9: for every Color c, ParseColor(c.Hex()) succeeds and returns exactly c.
C9_ColorRoundTrip ==
    pc = "Hex;ParseColor" => colorRes.err = Nil /\ colorRes.val = color

C9_Witness ==
    /\ pc = "Hex;ParseColor"
    /\ color = Color(128, 1, 192, 15)
    /\ colorText = <<"8", "0", "0", "1", "c", "0", "0", "f">>
    /\ colorRes.val = color

(***************************************************************************)
(* Claims about the coordinate codec (checked under SpecCoord).            *)
(***************************************************************************)
\* The whitespace-delimited tokens of a text, read off the text itself: the
\* maximal runs of non-space characters.
TokenSpans(s) ==
    {<<i, j>> \in (1..Len(s)) \X (1..Len(s)) :
        /\ i <= j
        /\ \A k \in i..j : ~IsSpace(s[k])
        /\ i = 1 \/ IsSpace(s[i - 1])
        /\ j = Len(s) \/ IsSpace(s[j + 1])}

CommaCount(t) == Cardinality({k \in 1..Len(t) : t[k] = ","})

\* The comma-delimited fields of a token: the maximal comma-free stretches,
\* empty ones included.
FieldSpans(t) ==
    {<<i, j>> \in (1..(Len(t) + 1)) \X (0..Len(t)) :
        /\ j >= i - 1
        /\ \A k \in i..j : t[k] # ","
        /\ i = 1 \/ t[i - 1] = ","
        /\ j = Len(t) \/ t[j + 1] = ","}

TokenMalformed(t) ==
    \/ CommaCount(t) < 1
    \/ CommaCount(t) > 2
    \/ \E f \in FieldSpans(t) : ~ParseFloat(SubSeq(t, f[1], f[2])).ok

CoordTextMalformed(s) ==
    \/ \A k \in 1..Len(s) : IsSpace(s[k])
    \/ \E sp \in TokenSpans(s) : TokenMalformed(SubSeq(s, sp[1], sp[2]))

\* C6: ParseCoordinates returns an error matching ErrInvalidCoordinate and no
\* coordinates when the input is empty or all whitespace, when a token has
\* fewer than 2 or more than 3 comma-separated fields, or when a field is not
\* numeric; one bad token anywhere fails the whole call.
C6_ParseCoordinatesRejectsMalformed ==
    (pc = "ParseCoordinates" /\ CoordTextMalformed(coordText)) =>
        /\ ErrorsIs(coordRes.err, ErrInvalidCoordinate)
        /\ coordRes.coords = <<>>

C6_Witness ==
    /\ pc = "ParseCoordinates"
    /\ coordText = <<"1", ",", "2", " ", "1", ",", "2", ",", "3", ",", "4">>
    /\ ErrorsIs(coordRes.err, ErrInvalidCoordinate)
    /\ coordRes.coords = <<>>

\* C10: for every coordinate c, ParseCoordinates(c.String()) succeeds and gives
\* back exactly c, also when the altitude is 0 and is left out of the text.
C10_CoordinateRoundTrip ==
    pc = "String;ParseCoordinates" => coordRes.err = Nil /\ coordRes.coords = coords

C10_Witness ==
    /\ pc = "String;ParseCoordinates"
    /\ coords = <<Coord(Num(-122087461, -6), Num(1234567, 0), Zero)>>
    /\ coordRes.coords = coords
    /\ CommaCount(coordText) = 1

(***************************************************************************)
(* Spec: a caller builds a KML tree, writes it and parses what was         *)
(* written; or a document is received and parsed.                          *)
(***************************************************************************)
StyleSample ==
    [ZeroStruct("Style") EXCEPT
        !.ID = <<"s", "1">>,
        !.LineStyle = [ZeroStruct("LineStyle") EXCEPT !.Color = Color(255, 0, 0, 255),
                                                      !.Width = Num(25, -1)],
        !.PolyStyle = [ZeroStruct("PolyStyle") EXCEPT !.Fill = "false"]]

StyleMapSample ==
    [ZeroStruct("StyleMap") EXCEPT
        !.ID = <<"m", "1">>,
        !.Pairs = <<[ZeroStruct("Pair") EXCEPT !.Key = <<"n">>, !.StyleURL = <<"#", "s", "1">>]>>]

ExtendedDataSample ==
    [ZeroStruct("ExtendedData") EXCEPT
        !.Data = <<[ZeroStruct("Data") EXCEPT !.Name = <<"k">>, !.Value = <<"v">>]>>]

PolygonSample ==
    Polygon(<<>>, TRUE, FALSE, <<>>, LinearRing(<<>>, FALSE, FALSE, <<>>, Square),
            <<LinearRing(<<>>, FALSE, FALSE, <<>>, Hole)>>)

MultiGeometrySample ==
    MultiGeometry(<<>>,
                  <<Point(<<>>, FALSE, <<>>, Coord(Num(1, 0), Num(2, 0), Zero)),
                    LineString(<<>>, FALSE, TRUE, AltitudeModeAbsolute, Hole),
                    MultiGeometry(<<>>, <<LinearRing(<<>>, FALSE, FALSE, <<>>, Square)>>)>>)

\* The placemarks a tree is built from; the last one carries a form feed in
\* its name.
PlacemarkSamples ==
    {ZeroPlacemark,
     Placemark(<<"p", "1">>, <<"P", "<", "1">>, <<"a", " ", "b">>, "true", <<"#", "s", "1">>,
               NilStruct, Point(<<>>, FALSE, <<>>, Coord(Num(15, -1), Num(-2, 0), Num(100, 0))),
               NilStruct),
     Placemark(<<>>, <<"P", "\f">>, <<>>, "false", <<>>, StyleSample, PolygonSample,
               ExtendedDataSample)}

\* The containers a tree is built from, before their children are set.
ContainerSamples ==
    {ZeroDocument,
     Document(<<"d", "1">>, <<"D">>, <<"x", "&", "y">>, TRUE, "false", <<StyleSample>>,
              <<StyleMapSample>>, <<>>),
     ZeroFolder,
     Folder(<<"f", "1">>, <<"F">>, <<"\n", "d">>, TRUE, "true", <<>>)}

\* The feature trees of exactly n nodes, and the lists of trees of n nodes in all.
RECURSIVE FeaturesOfSize(_), FeatureListsOfSize(_)
FeaturesOfSize(n) ==
    (IF n = 1 THEN PlacemarkSamples ELSE {})
    \cup {[c EXCEPT !.Features = l] : c \in ContainerSamples, l \in FeatureListsOfSize(n - 1)}

FeatureListsOfSize(n) ==
    IF n = 0 THEN {<<>>}
    ELSE UNION {{<<f>> \o l : f \in FeaturesOfSize(k), l \in FeatureListsOfSize(n - k)} :
                   k \in 1..n}

FeatureInputs == UNION {FeaturesOfSize(n) : n \in 1..MaxNodes}

KMLInputs ==
    {KML(ns, f) : ns \in {<<>>, <<"u", "r", "n", ":", "x">>}, f \in FeatureInputs \cup {NoFeature}}

\* Elements that no decoder of the package dispatches on.
UnknownElems ==
    {TextElem("Snippet", <<"x">>),
     Elem("NetworkLink", <<Attr("id", <<"n">>)>>, <<>>,
          <<Elem("Placemark", <<>>, <<>>, <<TextElem("name", <<"x">>)>>),
            TextElem("coordinates", <<"x">>)>>)}

\* The children a received kml element is made of.
TopKids ==
    {DocumentMarshalXML(Document(<<"d", "1">>, <<"D">>, <<>>, FALSE, "nil", <<>>, <<>>,
                                 <<ZeroPlacemark>>)),
     FolderMarshalXML(Folder(<<>>, <<"F">>, <<>>, TRUE, "nil", <<>>)),
     PlacemarkMarshalXML(Placemark(<<"p", "1">>, <<>>, <<>>, "nil", <<>>, NilStruct,
                                   Point(<<>>, FALSE, <<>>, Coord(Num(1, 0), Num(2, 0), Zero)),
                                   NilStruct)),
     Elem("Placemark", <<>>, <<>>,
          <<Elem("Point", <<>>, <<>>, <<TextElem("coordinates", <<"x", ",", "2">>)>>)>>)}
    \cup UnknownElems

DocInputs ==
    {Doc(pro, Elem(tag, attrs, <<>>, kids), "") :
        pro \in {"", XMLHeader}, tag \in {"kml", "Document"},
        attrs \in {<<>>, <<Attr("xmlns", DefaultNamespace)>>},
        kids \in SeqsUpTo(TopKids, MaxTop)}
    \cup {Doc("", NoNode, ""), Doc(XMLHeader, NoNode, "")}

Init ==
    /\ \/ pc = "built" /\ kml \in KMLInputs /\ xml = NoDoc
       \/ pc = "received" /\ kml = NoKML /\ xml \in DocInputs
    /\ base = NoDoc
    /\ parsed = NoParsed
    /\ IdleColor /\ IdleCoord /\ IdleGeom /\ IdleWalk /\ IdleHeap

\* k.Write(w) (k.Bytes() is Write into a buffer)
CallWrite ==
    /\ pc = "built"
    /\ xml' = Write(kml)
    /\ pc' = "Write"
    /\ UNCHANGED <<kml, base, parsed, colorVars, coordVars, geomVars, walk, heap>>

\* Parse(r) (ParseBytes(data) is Parse of a reader over data)
CallParse ==
    /\ pc \in {"received", "Write", "Insert", "Insert;Insert", "Corrupt", "Truncate"}
    /\ parsed' = Parse(xml)
    /\ pc' = pc \o ";Parse"
    /\ UNCHANGED <<kml, xml, base, colorVars, coordVars, geomVars, walk, heap>>

Next == CallWrite \/ CallParse

Spec == Init /\ [][Next]_vars

(***************************************************************************)
(* Claims about the document envelope and the feature codec (checked       *)
(* under Spec).                                                            *)
(***************************************************************************)
FeatureTags == {"Document", "Folder", "Placemark"}

\* The positions of the feature children of an element.
FeatureKids(el) == {i \in 1..Len(el.kids) : el.kids[i].tag \in FeatureTags}

FirstFeatureKid(el) == CHOOSE i \in FeatureKids(el) : \A j \in FeatureKids(el) : i <= j

\* C1: when the kml element holds more than one top-level Document, Folder or
\* Placemark child, Parse returns a KML whose root Feature is the first such
\* child in document order, the later ones being ignored.
C1_FirstTopLevelFeatureIsRoot ==
    (/\ pc = "received;Parse"
     /\ xml.root # NoNode
     /\ ~Broken(xml.root)
     /\ Cardinality(FeatureKids(xml.root)) > 1
     /\ \A i \in FeatureKids(xml.root) : DecodeFeature(xml.root.kids[i]).err = Nil)
    => /\ parsed.err = Nil
       /\ parsed.k.Feature = DecodeFeature(xml.root.kids[FirstFeatureKid(xml.root)]).val

\* Two trees agree in kind, id, name, description, open flag and styleUrl at
\* every node and have the same children in the same order.
RECURSIVE SameTree(_, _)
SameTree(a, b) ==
    /\ a.type = b.type
    /\ a.ID = b.ID
    /\ a.Name = b.Name
    /\ a.Description = b.Description
    /\ a.type = "Placemark" => a.StyleURL = b.StyleURL
    /\ a.type # "Placemark" =>
          /\ a.Open = b.Open
          /\ Len(a.Features) = Len(b.Features)
          /\ \A i \in 1..Len(a.Features) : SameTree(a.Features[i], b.Features[i])

TextValid(s) == \A i \in 1..Len(s) : IsInCharacterRange(s[i])

\* Every id, name, description and styleUrl of the tree is made of characters
\* in XML's character range.
RECURSIVE TreeTextValid(_)
TreeTextValid(f) ==
    /\ TextValid(f.ID) /\ TextValid(f.Name) /\ TextValid(f.Description)
    /\ f.type = "Placemark" => TextValid(f.StyleURL)
    /\ f.type # "Placemark" => \A i \in 1..Len(f.Features) : TreeTextValid(f.Features[i])

\* C3 as stated: for every KML tree with a non-nil root, parsing what Bytes()
\* wrote succeeds and gives a tree with the same kind, id, name, description,
\* open flag and styleUrl at every node and the same children in order.
C3_TreeRoundTrip ==
    (pc = "Write;Parse" /\ kml.Feature.type # "nil")
    => parsed.err = Nil /\ SameTree(parsed.k.Feature, kml.Feature)

\* C3 amended: the same, for the trees whose ids, names, descriptions and
\* styleUrls are made of characters in XML's character range.
C3_TreeRoundTripValidText ==
    (pc = "Write;Parse" /\ kml.Feature.type # "nil" /\ TreeTextValid(kml.Feature))
    => parsed.err = Nil /\ SameTree(parsed.k.Feature, kml.Feature)

C3_Witness ==
    /\ pc = "Write;Parse"
    /\ kml.Feature.type = "Document"
    /\ kml.Feature.ID = <<"d", "1">>
    /\ Len(kml.Feature.Features) = 2
    /\ kml.Feature.Features[1].type = "Folder"
    /\ kml.Feature.Features[1].Open
    /\ kml.Feature.Features[2].type = "Placemark"
    /\ kml.Feature.Features[2].StyleURL = <<"#", "s", "1">>
    /\ parsed.err = Nil
    /\ SameTree(parsed.k.Feature, kml.Feature)

\* C7: parsing a well-formed kml element that holds no Document, Folder or
\* Placemark child returns exactly ErrEmptyDocument and no KML value.
C7_NoFeatureIsErrEmptyDocument ==
    (/\ pc \in {"received;Parse", "Write;Parse"}
     /\ xml.root.tag = "kml"
     /\ ~Broken(xml.root)
     /\ FeatureKids(xml.root) = {})
    => parsed.err = ErrEmptyDocument /\ parsed.k = NoKML

C7_Witness ==
    /\ pc = "received;Parse"
    /\ xml.root.tag = "kml"
    /\ Len(xml.root.kids) >= 2
    /\ FeatureKids(xml.root) = {}
    /\ parsed.err = ErrEmptyDocument
    /\ parsed.k = NoKML

(***************************************************************************)
(* SpecEdit: a received document is edited before it is parsed: elements   *)
(* the package does not know are inserted, or the text of a coordinates    *)
(* element is replaced.                                                    *)
(***************************************************************************)
\* The elements whose children a decoder of the package dispatches on.
ContainerTags == {"kml", "Document", "Folder", "Placemark", "Point", "LineString",
                  "LinearRing", "Polygon", "outerBoundaryIs", "innerBoundaryIs",
                  "MultiGeometry"}

\* The places <<path, i>> of a document where an element can be inserted: after
\* the i-th child of the container that the path of child positions leads to.
RECURSIVE InsertPoints(_)
InsertPoints(el) ==
    (IF el.tag \in ContainerTags THEN {<<<<>>, i>> : i \in 0..Len(el.kids)} ELSE {})
    \cup UNION {{<<<<k>> \o pt[1], pt[2]>> : pt \in InsertPoints(el.kids[k])} :
                   k \in 1..Len(el.kids)}

RECURSIVE InsertAt(_, _, _, _)
InsertAt(el, path, i, new) ==
    IF path = <<>>
    THEN [el EXCEPT !.kids = SubSeq(@, 1, i) \o <<new>> \o SubSeq(@, i + 1, Len(@))]
    ELSE [el EXCEPT !.kids[Head(path)] = InsertAt(@, Tail(path), i, new)]

\* The paths to the coordinates elements of the Points, LineStrings and
\* LinearRings of a document.
RECURSIVE CoordinatePaths(_)
CoordinatePaths(el) ==
    UNION {(IF el.tag \in {"Point", "LineString", "LinearRing"}
               /\ el.kids[k].tag = "coordinates"
            THEN {<<k>>} ELSE {})
           \cup {<<k>> \o q : q \in CoordinatePaths(el.kids[k])} : k \in 1..Len(el.kids)}

RECURSIVE SetTextAt(_, _, _)
SetTextAt(el, path, text) ==
    IF path = <<>> THEN [el EXCEPT !.text = text]
    ELSE [el EXCEPT !.kids[Head(path)] = SetTextAt(@, Tail(path), text)]

\* Some whitespace-delimited token of the text has fewer than 2 or more than
\* 3 comma-separated fields, or a field that is not numeric.
SomeTokenMalformed(s) == \E sp \in TokenSpans(s) : TokenMalformed(SubSeq(s, sp[1], sp[2]))

BadCoordTexts ==
    {t \in TupleTexts \cup {<<"1", ",", "2", " ", "3">>, <<"1", ",", ",", "3">>,
                            <<"1", ",", "2", " ", "3", ",", "x">>} :
        SomeTokenMalformed(t)}

RichTree ==
    KML(DefaultNamespace,
        Document(<<"d", "1">>, <<"D">>, <<>>, TRUE, "nil", <<>>, <<>>,
                 <<Folder(<<"f", "1">>, <<"F">>, <<>>, FALSE, "true",
                          <<Placemark(<<>>, <<"P">>, <<>>, "nil", <<>>, NilStruct,
                                      PolygonSample, NilStruct)>>),
                   Placemark(<<"p", "2">>, <<>>, <<>>, "nil", <<>>, NilStruct,
                             MultiGeometrySample, NilStruct)>>))

EditBases ==
    {Write(RichTree),
     Doc("", Elem("kml", <<>>, <<>>,
                  <<Elem("Placemark", <<>>, <<>>,
                         <<TextElem("name", <<"x">>),
                           Elem("LinearRing", <<>>, <<>>,
                                <<TextElem("tessellate", <<"1">>),
                                  TextElem("coordinates",
                                           <<"1", ",", "2", " ", "3", ",", "4">>)>>)>>)>>),
         ""),
     Doc(XMLHeader,
         Elem("kml", <<Attr("xmlns", DefaultNamespace)>>, <<>>,
              <<Elem("Folder", <<>>, <<>>,
                     <<Elem("Placemark", <<>>, <<>>,
                            <<Elem("Point", <<>>, <<>>,
                                   <<TextElem("coordinates", <<"1", ",", "2">>)>>)>>),
                       Elem("Placemark", <<>>, <<>>,
                            <<Elem("LineString", <<>>, <<>>,
                                   <<TextElem("coordinates",
                                              <<"1", ",", "2", ",", "3">>)>>)>>)>>)>>),
         "\n")}

InitEdit ==
    /\ pc = "received"
    /\ kml = NoKML
    /\ xml \in EditBases
    /\ base = xml
    /\ parsed = NoParsed
    /\ IdleColor /\ IdleCoord /\ IdleGeom /\ IdleWalk /\ IdleHeap

\* An element with an unrecognized tag is inserted somewhere in the document.
InsertUnknown ==
    /\ pc \in {"received", "Insert"}
    /\ \E pt \in InsertPoints(xml.root), u \in UnknownElems :
          xml' = [xml EXCEPT !.root = InsertAt(@, pt[1], pt[2], u)]
    /\ pc' = IF pc = "received" THEN "Insert" ELSE "Insert;Insert"
    /\ UNCHANGED <<kml, base, parsed, colorVars, coordVars, geomVars, walk, heap>>

\* The text of one coordinates element is replaced by a malformed text.
CorruptCoordinates ==
    /\ pc = "received"
    /\ \E path \in CoordinatePaths(xml.root), t \in BadCoordTexts :
          xml' = [xml EXCEPT !.root = SetTextAt(@, path, t)]
    /\ pc' = "Corrupt"
    /\ UNCHANGED <<kml, base, parsed, colorVars, coordVars, geomVars, walk, heap>>

NextEdit == InsertUnknown \/ CorruptCoordinates \/ CallParse

SpecEdit == InitEdit /\ [][NextEdit]_vars

(***************************************************************************)
(* Claims about edited documents (checked under SpecEdit).                 *)
(***************************************************************************)
\* C4: when the coordinates text of a Point, LineString or LinearRing anywhere
\* in a document is malformed, Parse fails for the whole document and the
\* error matches ErrInvalidCoordinate.
C4_MalformedCoordinatesFailParse ==
    pc = "Corrupt;Parse" => parsed.k = NoKML /\ ErrorsIs(parsed.err, ErrInvalidCoordinate)

\* Some element with the tag parent has a child element with the tag kid.
RECURSIVE HasKidUnder(_, _, _)
HasKidUnder(el, parent, kid) ==
    \/ el.tag = parent /\ \E k \in 1..Len(el.kids) : el.kids[k].tag = kid
    \/ \E k \in 1..Len(el.kids) : HasKidUnder(el.kids[k], parent, kid)

\* C8: inserting elements with unrecognized tags among the children of the kml
\* element, of a Document, Folder or Placemark, or of any geometry (also inside
\* outerBoundaryIs, innerBoundaryIs and MultiGeometry) never makes Parse fail
\* and does not change the decoded tree.
C8_UnknownElementsAreSkipped ==
    (pc \in {"Insert;Parse", "Insert;Insert;Parse"} /\ Parse(base).err = Nil)
    => parsed.err = Nil /\ parsed.k = Parse(base).k

C8_Witness ==
    /\ pc = "Insert;Insert;Parse"
    /\ base = Write(RichTree)
    /\ HasKidUnder(xml.root, "innerBoundaryIs", "NetworkLink")
    /\ HasKidUnder(xml.root, "MultiGeometry", "Snippet")
    /\ parsed.err = Nil
    /\ parsed.k = Parse(base).k
    /\ parsed.k.Feature.type = "Document"

(***************************************************************************)
(* SpecVisibility: a Document, Folder or Placemark in each of the three    *)
(* visibility states, alone or as the only child of a container, is        *)
(* written and parsed back.                                                *)
(***************************************************************************)
VisibilityStates == {"nil", "true", "false"}

VisibilityLeaves ==
    {[f EXCEPT !.Visibility = v] :
        f \in {ZeroPlacemark, [ZeroDocument EXCEPT !.Name = <<"D">>],
               [ZeroFolder EXCEPT !.Open = TRUE]},
        v \in VisibilityStates}

VisibilityTrees ==
    VisibilityLeaves
    \cup {[c EXCEPT !.Features = <<f>>] :
             c \in {l \in VisibilityLeaves : l.type # "Placemark"}, f \in VisibilityLeaves}

InitVisibility ==
    /\ pc = "built"
    /\ kml \in {KML(DefaultNamespace, f) : f \in VisibilityTrees}
    /\ xml = NoDoc
    /\ base = NoDoc
    /\ parsed = NoParsed
    /\ IdleColor /\ IdleCoord /\ IdleGeom /\ IdleWalk /\ IdleHeap

SpecVisibility == InitVisibility /\ [][Next]_vars

\* Two feature trees of the same shape with the same visibility state at
\* every node.
RECURSIVE SameVisibility(_, _)
SameVisibility(a, b) ==
    /\ a.type = b.type
    /\ a.Visibility = b.Visibility
    /\ a.type = "Placemark"
        \/ /\ Len(a.Features) = Len(b.Features)
           /\ \A i \in 1..Len(a.Features) : SameVisibility(a.Features[i], b.Features[i])

\* C11: for Document, Folder and Placemark each of the three visibility
\* states is preserved by encode followed by decode: absent stays absent,
\* true stays true and false stays explicitly false.
C11_VisibilityRoundTrip ==
    pc = "Write;Parse" => parsed.err = Nil /\ SameVisibility(kml.Feature, parsed.k.Feature)

C11_Witness ==
    /\ pc = "Write;Parse"
    /\ kml.Feature.type = "Folder"
    /\ kml.Feature.Visibility = "false"
    /\ kml.Feature.Features # <<>>
    /\ kml.Feature.Features[1].type = "Document"
    /\ kml.Feature.Features[1].Visibility = "nil"
    /\ parsed.k.Feature.Visibility = "false"
    /\ parsed.k.Feature.Features[1].Visibility = "nil"

(***************************************************************************)
(* SpecGeomXml: geometry elements as a document may hold them, with        *)
(* several rings in a boundary wrapper and several wrappers in a Polygon,  *)
(* are decoded; a few geometries are marshalled first.                     *)
(***************************************************************************)
SquareElem == LinearRingMarshalXML(LinearRing(<<>>, FALSE, FALSE, <<>>, Square))
HoleElem == LinearRingMarshalXML(LinearRing(<<>>, FALSE, TRUE, <<>>, Hole))

BoundaryElems ==
    {Elem(tag, <<>>, <<>>, rings) :
        tag \in {"outerBoundaryIs", "innerBoundaryIs"},
        rings \in {<<>>, <<SquareElem>>, <<HoleElem>>, <<SquareElem, HoleElem>>}}

ReceivedPolygons ==
    {Elem("Polygon", <<>>, <<>>, kids) : kids \in SeqsUpTo(BoundaryElems, MaxWrappers)}

ReceivedGeoms == ReceivedPolygons

BuiltGeoms ==
    {ZeroPolygon, PolygonSample, MultiGeometrySample, ZeroLineString, ZeroLinearRing,
     LineString(<<"g", "1">>, TRUE, TRUE, AltitudeModeAbsolute, <<>>),
     Polygon(<<>>, FALSE, TRUE, <<>>, ZeroLinearRing,
             <<ZeroLinearRing, LinearRing(<<>>, FALSE, FALSE, <<>>, Hole)>>)}

InitGeomXml ==
    /\ \/ pc = "init" /\ geom \in BuiltGeoms /\ geomXml = NoNode
       \/ pc = "received" /\ geom = NoGeometry /\ geomXml \in ReceivedGeoms
    /\ geomRes = NoGeomRes
    /\ IdleColor /\ IdleCoord /\ IdleDoc /\ IdleWalk /\ IdleHeap

SpecGeomXml == InitGeomXml /\ [][NextGeom]_vars

\* The rings of a Polygon element in document order: those that are
\* LinearRing children of its children with the given wrapper tag.
RECURSIVE RingsIn(_, _), WrapperRings(_)
WrapperRings(kids) ==
    IF kids = <<>> THEN <<>>
    ELSE (IF Head(kids).tag = "LinearRing" THEN <<LinearRingUnmarshalXML(Head(kids)).val>>
          ELSE <<>>) \o WrapperRings(Tail(kids))

RingsIn(kids, wrapper) ==
    IF kids = <<>> THEN <<>>
    ELSE (IF Head(kids).tag = wrapper THEN WrapperRings(Head(kids).kids) ELSE <<>>)
         \o RingsIn(Tail(kids), wrapper)

\* C12: decoding a Polygon takes as its outer boundary the last LinearRing
\* found inside an outerBoundaryIs wrapper, without error when several are
\* present, and appends the LinearRings found inside innerBoundaryIs wrappers
\* to InnerBoundaries in document order.
C12_PolygonBoundaries ==
    (pc = "received;Unmarshal" /\ geomXml.tag = "Polygon")
    => /\ geomRes.err = Nil
       /\ geomRes.val.InnerBoundaries = RingsIn(geomXml.kids, "innerBoundaryIs")
       /\ RingsIn(geomXml.kids, "outerBoundaryIs") # <<>>
          => geomRes.val.OuterBoundary
               = RingsIn(geomXml.kids, "outerBoundaryIs")[
                     Len(RingsIn(geomXml.kids, "outerBoundaryIs"))]

C12_Witness ==
    /\ pc = "received;Unmarshal"
    /\ geomXml.tag = "Polygon"
    /\ Len(geomXml.kids) = 2
    /\ geomXml.kids[1].tag = "outerBoundaryIs"
    /\ Len(geomXml.kids[1].kids) = 2
    /\ geomXml.kids[1].kids[1] # geomXml.kids[1].kids[2]
    /\ geomXml.kids[2].tag = "innerBoundaryIs"
    /\ Len(geomXml.kids[2].kids) = 2
    /\ geomXml.kids[2].kids[1] # geomXml.kids[2].kids[2]
    /\ geomRes.err = Nil
    /\ geomRes.val.OuterBoundary = LinearRingUnmarshalXML(geomXml.kids[1].kids[2]).val
    /\ Len(geomRes.val.InnerBoundaries) = 2

(***************************************************************************)
(* SpecPlacemarkXml: a document whose root feature is a Placemark element  *)
(* with up to MaxKids children, geometries of every kind among them, is    *)
(* parsed; a few placemarks are written first.                             *)
(***************************************************************************)
GeometryElems ==
    {PointMarshalXML(Point(<<>>, FALSE, <<>>, Coord(Num(1, 0), Num(2, 0), Zero))),
     LineStringMarshalXML(LineString(<<>>, FALSE, TRUE, <<>>, Square)),
     LinearRingMarshalXML(LinearRing(<<>>, FALSE, FALSE, <<>>, Hole)),
     PolygonMarshalXML(PolygonSample),
     MultiGeometryMarshalXML(MultiGeometrySample)}

PlacemarkKids == GeometryElems \cup {TextElem("name", <<"P">>)}

ReceivedPlacemarks ==
    {Doc(XMLHeader,
         Elem("kml", <<Attr("xmlns", DefaultNamespace)>>, <<>>,
              <<Elem("Placemark", <<>>, <<>>, kids)>>),
         "\n") : kids \in SeqsUpTo(PlacemarkKids, MaxKids)}

InitPlacemarkXml ==
    /\ \/ pc = "built" /\ kml \in {KML(DefaultNamespace, f) : f \in PlacemarkSamples}
          /\ xml = NoDoc
       \/ pc = "received" /\ kml = NoKML /\ xml \in ReceivedPlacemarks
    /\ base = NoDoc
    /\ parsed = NoParsed
    /\ IdleColor /\ IdleCoord /\ IdleGeom /\ IdleWalk /\ IdleHeap

SpecPlacemarkXml == InitPlacemarkXml /\ [][Next]_vars

\* The positions of the geometry children of an element.
GeometryKids(el) == {i \in 1..Len(el.kids) : el.kids[i].tag \in GeometryTags}

\* The last geometry child of an element in document order.
LastGeometryKid(el) ==
    el.kids[CHOOSE i \in GeometryKids(el) : \A j \in GeometryKids(el) : j <= i]

\* C13: when a Placemark element contains more than one recognized geometry
\* child, decoding succeeds and the Placemark's Geometry is the last of them
\* in document order.
C13_LastGeometryWins ==
    (pc = "received;Parse" /\ Cardinality(GeometryKids(xml.root.kids[1])) > 1)
    => /\ parsed.err = Nil
       /\ parsed.k.Feature.type = "Placemark"
       /\ parsed.k.Feature.Geometry = DecodeGeometry(LastGeometryKid(xml.root.kids[1])).val

C13_Witness ==
    /\ pc = "received;Parse"
    /\ Len(xml.root.kids[1].kids) = 3
    /\ xml.root.kids[1].kids[1].tag = "Polygon"
    /\ xml.root.kids[1].kids[2].tag = "Point"
    /\ xml.root.kids[1].kids[3].tag = "name"
    /\ parsed.err = Nil
    /\ parsed.k.Feature.Geometry.type = "Point"

(***************************************************************************)
(* Claims about MultiGeometry (checked under SpecGeom).                    *)
(***************************************************************************)
\* Two geometries have the same variant and, when they are MultiGeometries,
\* the same number of children with the same variants in the same order, at
\* every depth.
RECURSIVE SameVariants(_, _)
SameVariants(a, b) ==
    /\ a.type = b.type
    /\ a.type = "MultiGeometry"
        => /\ Len(a.Geometries) = Len(b.Geometries)
           /\ \A i \in 1..Len(a.Geometries) : SameVariants(a.Geometries[i], b.Geometries[i])

\* The children of an element that carry a geometry tag, decoded, in
\* document order.
RECURSIVE DecodedGeometryKids(_)
DecodedGeometryKids(kids) ==
    IF kids = <<>> THEN <<>>
    ELSE (IF Head(kids).tag \in GeometryTags THEN <<DecodeGeometry(Head(kids)).val>> ELSE <<>>)
         \o DecodedGeometryKids(Tail(kids))

\* C14: decoding a MultiGeometry appends every Point, LineString, LinearRing,
\* Polygon and nested MultiGeometry child, decoded by the recursive dispatch,
\* to Geometries in document order, so that encode followed by decode
\* preserves the number, order and variant of the children at every depth.
C14_MultiGeometryChildren ==
    (pc = "Marshal;Unmarshal" /\ geom.type = "MultiGeometry")
    => /\ geomRes.err = Nil
       /\ geomRes.val.Geometries = DecodedGeometryKids(geomXml.kids)
       /\ SameVariants(geom, geomRes.val)

C14_Witness ==
    /\ pc = "Marshal;Unmarshal"
    /\ geom.type = "MultiGeometry"
    /\ geom.ID # <<>>
    /\ Len(geom.Geometries) = 2
    /\ geom.Geometries[1].type = "Polygon"
    /\ geom.Geometries[2].type = "MultiGeometry"
    /\ Len(geom.Geometries[2].Geometries) = 2
    /\ geom.Geometries[2].Geometries[2].type = "MultiGeometry"
    /\ geomRes.err = Nil
    /\ Len(geomRes.val.Geometries) = 2
    /\ geomRes.val.Geometries[2].Geometries[2].Geometries[1].type = "LineString"

(***************************************************************************)
(* Claims about empty boundaries and coordinate lists (checked under       *)
(* SpecGeomXml).                                                           *)
(***************************************************************************)
\* C15: decoding a Polygon element with no outerBoundaryIs child succeeds
\* with an outer ring of zero coordinates, and encoding then decoding a
\* Polygon, LineString or LinearRing whose coordinate list is empty succeeds
\* and yields an empty coordinate list again.
C15_EmptyRingsAreLegal ==
    /\ (/\ pc = "received;Unmarshal"
        /\ geomXml.tag = "Polygon"
        /\ \A i \in 1..Len(geomXml.kids) : geomXml.kids[i].tag # "outerBoundaryIs")
       => /\ geomRes.err = Nil
          /\ geomRes.val.type = "Polygon"
          /\ geomRes.val.OuterBoundary.type = "LinearRing"
          /\ geomRes.val.OuterBoundary.Coordinates = <<>>
    /\ (/\ pc = "Marshal;Unmarshal"
        /\ geom.type \in {"LineString", "LinearRing"}
        /\ geom.Coordinates = <<>>)
       => geomRes.err = Nil /\ geomRes.val.type = geom.type /\ geomRes.val.Coordinates = <<>>
    /\ (pc = "Marshal;Unmarshal" /\ geom.type = "Polygon")
       => /\ geomRes.err = Nil
          /\ geom.OuterBoundary.Coordinates = <<>>
             => geomRes.val.OuterBoundary.Coordinates = <<>>
          /\ Len(geomRes.val.InnerBoundaries) = Len(geom.InnerBoundaries)
          /\ \A i \in 1..Len(geom.InnerBoundaries) :
                 geom.InnerBoundaries[i].Coordinates = <<>>
                 => geomRes.val.InnerBoundaries[i].Coordinates = <<>>

C15_Witness ==
    /\ pc = "received;Unmarshal"
    /\ geomXml.tag = "Polygon"
    /\ Len(geomXml.kids) = 1
    /\ geomXml.kids[1].tag = "innerBoundaryIs"
    /\ geomXml.kids[1].kids = <<HoleElem>>
    /\ geomRes.err = Nil
    /\ geomRes.val.OuterBoundary = ZeroLinearRing
    /\ Len(geomRes.val.InnerBoundaries) = 1

(***************************************************************************)
(* Claims about the encoded form of a geometry (checked under SpecGeom).   *)
(***************************************************************************)
\* The place of a child element in the fixed order; every payload element
\* has the last place.
ChildRank(tag) ==
    CASE tag = "id" -> 1
      [] tag = "extrude" -> 2
      [] tag = "tessellate" -> 3
      [] tag = "altitudeMode" -> 4
      [] OTHER -> 5

\* The payload children of a geometry element, in document order.
Payload(el) == SelectSeq(el.kids, LAMBDA k : ChildRank(k.tag) = 5)

\* The header children of an element come first, each at most once and in
\* the fixed order, and its payload has the shape of its kind; the same
\* holds of every geometry element inside it.
RECURSIVE FixedOrder(_)
FixedOrder(el) ==
    /\ \A i, j \in 1..Len(el.kids) :
          i < j => \/ ChildRank(el.kids[i].tag) < ChildRank(el.kids[j].tag)
                   \/ ChildRank(el.kids[i].tag) = 5 /\ ChildRank(el.kids[j].tag) = 5
    /\ CASE el.tag \in {"Point", "LineString", "LinearRing"} ->
              /\ Len(Payload(el)) = 1
              /\ Payload(el)[1].tag = "coordinates"
         [] el.tag = "Polygon" ->
              /\ Len(Payload(el)) >= 1
              /\ \A i \in 1..Len(Payload(el)) :
                    /\ Payload(el)[i].tag = IF i = 1 THEN "outerBoundaryIs" ELSE "innerBoundaryIs"
                    /\ Len(Payload(el)[i].kids) = 1
                    /\ Payload(el)[i].kids[1].tag = "LinearRing"
                    /\ FixedOrder(Payload(el)[i].kids[1])
         [] el.tag = "MultiGeometry" ->
              \A i \in 1..Len(Payload(el)) :
                  Payload(el)[i].tag \in GeometryTags /\ FixedOrder(Payload(el)[i])

\* The payload of an encoded geometry follows the geometry's lists.
PayloadInListOrder(g, el) ==
    CASE g.type = "Point" -> Payload(el)[1].text = CoordinateString(g.Coordinates)
      [] g.type \in {"LineString", "LinearRing"} ->
             Payload(el)[1].text = coordinatesToString(g.Coordinates)
      [] g.type = "Polygon" ->
             /\ Len(Payload(el)) = 1 + Len(g.InnerBoundaries)
             /\ Payload(el)[1].kids[1] = LinearRingMarshalXML(g.OuterBoundary)
             /\ \A i \in 1..Len(g.InnerBoundaries) :
                   Payload(el)[i + 1].kids[1] = LinearRingMarshalXML(g.InnerBoundaries[i])
      [] g.type = "MultiGeometry" ->
             /\ Len(Payload(el)) = Len(g.Geometries)
             /\ \A i \in 1..Len(g.Geometries) : Payload(el)[i] = EncodeGeometry(g.Geometries[i])

\* C16: every geometry is encoded with its child elements in the fixed order
\* id, extrude, tessellate, altitudeMode, then the payload: coordinates; for
\* a Polygon one outerBoundaryIs followed by the innerBoundaryIs elements in
\* list order; for a MultiGeometry the child geometries in list order.
C16_EncodedChildOrder ==
    pc = "Marshal" => /\ geomXml.tag = geom.type
                      /\ FixedOrder(geomXml)
                      /\ PayloadInListOrder(geom, geomXml)

C16_Witness ==
    /\ pc = "Marshal"
    /\ geom.type = "Polygon"
    /\ Len(geom.InnerBoundaries) = 2
    /\ geom.InnerBoundaries[1] # geom.InnerBoundaries[2]
    /\ [i \in 1..Len(geomXml.kids) |-> geomXml.kids[i].tag]
         = <<"id", "extrude", "altitudeMode", "outerBoundaryIs", "innerBoundaryIs",
             "innerBoundaryIs">>

(***************************************************************************)
(* SpecFlags: documents whose containers and geometries carry every        *)
(* combination of the open, extrude and tessellate flags are written and   *)
(* parsed back.                                                            *)
(***************************************************************************)
FlagRings == {ZeroLinearRing, LinearRing(<<>>, TRUE, TRUE, <<>>, Hole)}

FlagGeoms ==
    {Point(<<>>, ex, <<>>, ZeroCoord) : ex \in BOOLEAN}
    \cup {LineString(<<>>, ex, te, <<>>, Hole) : ex \in BOOLEAN, te \in BOOLEAN}
    \cup {LinearRing(<<>>, ex, te, <<>>, Square) : ex \in BOOLEAN, te \in BOOLEAN}
    \cup {Polygon(<<>>, ex, te, <<>>, outer, <<LinearRing(<<>>, FALSE, TRUE, <<>>, Hole)>>) :
            ex \in BOOLEAN, te \in BOOLEAN, outer \in FlagRings}
    \cup {MultiGeometry(<<>>, <<Point(<<>>, ex, <<>>, ZeroCoord),
                                LineString(<<>>, FALSE, te, <<>>, Hole)>>) :
            ex \in BOOLEAN, te \in BOOLEAN}

FlagPlacemarks == {[ZeroPlacemark EXCEPT !.Geometry = g] : g \in FlagGeoms}

FlagTrees ==
    FlagPlacemarks
    \cup {[c EXCEPT !.Open = o, !.Features = <<p>>] :
            c \in {ZeroDocument, ZeroFolder}, o \in BOOLEAN, p \in FlagPlacemarks}

InitFlags ==
    /\ pc = "built"
    /\ kml \in {KML(DefaultNamespace, f) : f \in FlagTrees}
    /\ xml = NoDoc
    /\ base = NoDoc
    /\ parsed = NoParsed
    /\ IdleColor /\ IdleCoord /\ IdleGeom /\ IdleWalk /\ IdleHeap

SpecFlags == InitFlags /\ [][Next]_vars

FlagTags == {"extrude", "tessellate", "open"}

\* The open, extrude and tessellate elements of a document in document
\* order, each with its text.
RECURSIVE WrittenFlags(_), WrittenFlagsOf(_)
WrittenFlags(el) ==
    IF el.tag \in FlagTags THEN <<[tag |-> el.tag, text |-> el.text]>>
    ELSE WrittenFlagsOf(el.kids)

WrittenFlagsOf(kids) ==
    IF kids = <<>> THEN <<>> ELSE WrittenFlags(Head(kids)) \o WrittenFlagsOf(Tail(kids))

\* The flags that are true in a feature or geometry, in the order of the
\* tree, each as the element with text 1 that stands for it.
RECURSIVE TrueFlags(_), TrueFlagsOf(_)
TrueFlags(v) ==
    LET One(flag, tag) == IF flag THEN <<[tag |-> tag, text |-> <<"1">>]>> ELSE <<>>
    IN CASE v.type \in {"Document", "Folder"} -> One(v.Open, "open") \o TrueFlagsOf(v.Features)
         [] v.type = "Placemark" -> TrueFlags(v.Geometry)
         [] v.type = "Point" -> One(v.Extrude, "extrude")
         [] v.type \in {"LineString", "LinearRing"} ->
                One(v.Extrude, "extrude") \o One(v.Tessellate, "tessellate")
         [] v.type = "Polygon" ->
                One(v.Extrude, "extrude") \o One(v.Tessellate, "tessellate")
                \o TrueFlags(v.OuterBoundary) \o TrueFlagsOf(v.InnerBoundaries)
         [] v.type = "MultiGeometry" -> TrueFlagsOf(v.Geometries)
         [] OTHER -> <<>>

TrueFlagsOf(vs) ==
    IF vs = <<>> THEN <<>> ELSE TrueFlags(Head(vs)) \o TrueFlagsOf(Tail(vs))

\* C17: the encoder writes extrude, tessellate and open as the text 1 when
\* the flag is true and writes no element at all when the flag is false; it
\* never writes 0 for any of these three flags.
C17_FlagsAreOneOrAbsent ==
    pc = "Write" => WrittenFlags(xml.root) = TrueFlags(kml.Feature)

C17_Witness ==
    /\ pc = "Write"
    /\ kml.Feature.type = "Document"
    /\ ~kml.Feature.Open
    /\ kml.Feature.Features[1].Geometry.type = "Polygon"
    /\ ~kml.Feature.Features[1].Geometry.Extrude
    /\ kml.Feature.Features[1].Geometry.Tessellate
    /\ kml.Feature.Features[1].Geometry.OuterBoundary.Extrude
    /\ WrittenFlags(xml.root)
         = <<[tag |-> "tessellate", text |-> <<"1">>], [tag |-> "extrude", text |-> <<"1">>],
             [tag |-> "tessellate", text |-> <<"1">>], [tag |-> "tessellate", text |-> <<"1">>]>>

(***************************************************************************)
(* Claims about the text of coordinates (checked under SpecCoord).         *)
(***************************************************************************)
\* C18: Coordinate.String yields lon,lat when the altitude is exactly 0 and
\* lon,lat,alt otherwise, and a coordinate list is encoded as these texts
\* joined by exactly one space, the empty list giving the empty text.
C18_CoordinateText ==
    /\ pc = "String"
       => Split(coordText, ",")
            = IF coords[1].Alt = Zero
              THEN <<FormatG(coords[1].Lon), FormatG(coords[1].Lat)>>
              ELSE <<FormatG(coords[1].Lon), FormatG(coords[1].Lat), FormatG(coords[1].Alt)>>
    /\ pc = "coordinatesToString"
       => IF coords = <<>> THEN coordText = <<>>
          ELSE Split(coordText, " ") = [i \in 1..Len(coords) |-> CoordinateString(coords[i])]

C18_Witness ==
    /\ pc = "coordinatesToString"
    /\ coords = <<Coord(Num(1, 0), Num(2, 0), Zero), Coord(Num(15, -1), Num(-2, 0), Num(100, 0))>>
    /\ coordText = <<"1", ",", "2", " ", "1", ".", "5", ",", "-", "2", ",", "1", "0", "0">>

(***************************************************************************)
(* Claims about the order of the colour channels (checked under SpecColor).*)
(***************************************************************************)
\* The value of the k-th pair of hexadecimal digits of a text.
PairValue(t, k) == 16 * HexVal(t[2 * k - 1]) + HexVal(t[2 * k])

\* C19: ParseColor reads the four hex digit pairs of the text, in order, as
\* alpha, blue, green, red, and Hex writes the channels in that same order as
\* exactly 8 lowercase zero-padded hex digits, so that A=128, B=64, G=192,
\* R=32 formats to 8040c020.
C19_ChannelOrder ==
    /\ (pc \in {"ParseColor", "Hex;ParseColor"} /\ colorRes.err = Nil)
       => /\ Len(colorText) = 8
          /\ colorRes.val = Color(PairValue(colorText, 1), PairValue(colorText, 2),
                                  PairValue(colorText, 3), PairValue(colorText, 4))
    /\ pc \in {"Hex", "Hex;ParseColor"}
       => /\ Len(colorText) = 8
          /\ \A i \in 1..8 : \E d \in 1..16 : colorText[i] = HexLower[d]
          /\ color = Color(PairValue(colorText, 1), PairValue(colorText, 2),
                           PairValue(colorText, 3), PairValue(colorText, 4))
          /\ color = Color(128, 64, 192, 32)
             => colorText = <<"8", "0", "4", "0", "c", "0", "2", "0">>

C19_Witness ==
    /\ pc = "Hex;ParseColor"
    /\ color = Color(128, 64, 192, 32)
    /\ colorText = <<"8", "0", "4", "0", "c", "0", "2", "0">>
    /\ colorRes.err = Nil
    /\ colorRes.val = color

(***************************************************************************)
(* Claims about the shape of a written document (checked under Spec).      *)
(***************************************************************************)
\* C20: every output of Write consists of the XML declaration line, then one
\* kml wrapper element carrying the namespace attribute and containing
\* exactly the root Feature as its only child (nothing at all between the
\* open and close tags when Feature is nil), then a single newline.
C20_WrittenDocumentShape ==
    pc = "Write"
    => /\ xml.prolog = "<?xml version=\"1.0\" encoding=\"UTF-8\"?>\n"
       /\ xml.root.tag = "kml"
       /\ Len(xml.root.attrs) = 1
       /\ xml.root.attrs[1].name = "xmlns"
       /\ xml.root.attrs[1].value = IF kml.Xmlns = <<>> THEN DefaultNamespace ELSE kml.Xmlns
       /\ xml.root.text = <<>>
       /\ IF kml.Feature.type = "nil" THEN xml.root.kids = <<>>
          ELSE /\ Len(xml.root.kids) = 1
               /\ xml.root.kids[1].tag = kml.Feature.type
               /\ <<xml.root.kids[1]>> = EncodeFeature(kml.Feature)
       /\ xml.epilog = "\n"

C20_Witness ==
    /\ pc = "Write"
    /\ kml.Feature.type = "nil"
    /\ kml.Xmlns = <<>>
    /\ xml = Doc(XMLHeader, Elem("kml", <<Attr("xmlns", DefaultNamespace)>>, <<>>, <<>>), "\n")

(***************************************************************************)
(* SpecNamespace: KML values with an empty, the default, another and an    *)
(* unwritable namespace are written and parsed back; kml elements with no, *)
(* an empty, one or two xmlns attributes are received and parsed.          *)
(***************************************************************************)
OtherNamespace == <<"u", "r", "n", ":", "x">>

Namespaces == {<<>>, DefaultNamespace, OtherNamespace, <<" ">>, <<"u", "\f">>}

NamespaceAttrs ==
    {<<>>,
     <<Attr("xmlns", <<>>)>>,
     <<Attr("xmlns", OtherNamespace)>>,
     <<Attr("id", <<"k">>), Attr("xmlns", DefaultNamespace)>>,
     <<Attr("xmlns", OtherNamespace), Attr("xmlns", <<>>)>>,
     <<Attr("xmlns:gx", OtherNamespace)>>}

InitNamespace ==
    /\ \/ /\ pc = "built"
          /\ kml \in {KML(ns, f) : ns \in Namespaces,
                                   f \in PlacemarkSamples \cup ContainerSamples}
          /\ xml = NoDoc
       \/ /\ pc = "received"
          /\ kml = NoKML
          /\ xml \in {Doc(XMLHeader, Elem("kml", attrs, <<>>, <<kid>>), "\n") :
                        attrs \in NamespaceAttrs, kid \in TopKids}
    /\ base = NoDoc
    /\ parsed = NoParsed
    /\ IdleColor /\ IdleCoord /\ IdleGeom /\ IdleWalk /\ IdleHeap

SpecNamespace == InitNamespace /\ [][Next]_vars

\* The element has no xmlns attribute, or the one that counts is empty.
NoNamespaceGiven(el) == AttrValue(el.attrs, "xmlns", <<>>) = <<>>

\* What the claim says without a condition on the namespace string.
NamespaceRule(Preserved(_)) ==
    /\ (pc = "received;Parse" /\ parsed.err = Nil)
       => /\ parsed.k.Xmlns # <<>>
          /\ NoNamespaceGiven(xml.root) => parsed.k.Xmlns = DefaultNamespace
    /\ pc \in {"Write", "Write;Parse"}
       => /\ AttrValue(xml.root.attrs, "xmlns", <<>>) # <<>>
          /\ kml.Xmlns = <<>> => AttrValue(xml.root.attrs, "xmlns", <<>>) = DefaultNamespace
    /\ pc = "Write;Parse"
       => /\ parsed.err = Nil
          /\ parsed.k.Xmlns # <<>>
          /\ kml.Xmlns = <<>> => parsed.k.Xmlns = DefaultNamespace
          /\ (kml.Xmlns # <<>> /\ Preserved(kml.Xmlns)) => parsed.k.Xmlns = kml.Xmlns

\* C21 as stated: the namespace is never empty after decode and never
\* written empty: decoding a wrapper with no xmlns attribute or an empty one
\* sets Xmlns to DefaultNamespace, encoding a KML whose Xmlns is empty writes
\* DefaultNamespace, and any other namespace string is preserved unchanged
\* by encode followed by decode.
C21_NamespaceNeverEmpty == NamespaceRule(LAMBDA ns : TRUE)

\* C21 amended: the same, where the namespace strings that are preserved are
\* those made of characters in XML's character range.
C21_NamespaceNeverEmptyValidText == NamespaceRule(TextValid)

C21_Witness ==
    /\ pc = "Write;Parse"
    /\ kml.Xmlns = OtherNamespace
    /\ AttrValue(xml.root.attrs, "xmlns", <<>>) = OtherNamespace
    /\ parsed.err = Nil
    /\ parsed.k.Xmlns = OtherNamespace

(***************************************************************************)
(* SpecTruncate: a received document is cut off somewhere (the tokenizer   *)
(* reports a syntax error there, as it does at a mismatched tag), or the   *)
(* text of a coordinates element is replaced, before it is parsed.         *)
(***************************************************************************)
SyntaxNode == Elem(SyntaxTag, <<>>, <<>>, <<>>)

TruncateBases ==
    EditBases
    \cup {Doc("", NoNode, ""),
          Doc("", SyntaxNode, ""),
          Doc(XMLHeader, Elem("kml", <<>>, <<>>, <<>>), "\n"),
          Doc(XMLHeader,
              Elem("kml", <<>>, <<>>,
                   <<TextElem("Snippet", <<"x">>),
                     Elem("NetworkLink", <<>>, <<>>,
                          <<Elem("Placemark", <<>>, <<>>, <<TextElem("name", <<"x">>)>>)>>),
                     Elem("Placemark", <<>>, <<>>,
                          <<TextElem("name", <<"P">>),
                            StructMarshal(StyleSample, "Style")>>)>>),
              "\n")}

\* The places <<path, i>> where a document can end early: after the i-th
\* child of the element that the path of child positions leads to.
RECURSIVE TruncationPoints(_)
TruncationPoints(el) ==
    {<<<<>>, i>> : i \in 0..Len(el.kids)}
    \cup UNION {{<<<<k>> \o pt[1], pt[2]>> : pt \in TruncationPoints(el.kids[k])} :
                   k \in 1..Len(el.kids)}

\* The document that ends at the place: nothing after it is there to read.
RECURSIVE TruncateAt(_, _, _)
TruncateAt(el, path, i) ==
    IF path = <<>> THEN [el EXCEPT !.kids = SubSeq(@, 1, i) \o <<SyntaxNode>>]
    ELSE [el EXCEPT !.kids = SubSeq(@, 1, Head(path) - 1)
                             \o <<TruncateAt(@[Head(path)], Tail(path), i)>>]

InitTruncate ==
    /\ pc = "received"
    /\ kml = NoKML
    /\ xml \in TruncateBases
    /\ base = xml
    /\ parsed = NoParsed
    /\ IdleColor /\ IdleCoord /\ IdleGeom /\ IdleWalk /\ IdleHeap

\* The input ends early somewhere inside the root element.
TruncateInput ==
    /\ pc = "received"
    /\ xml.root.tag \notin {"", SyntaxTag}
    /\ \E pt \in TruncationPoints(xml.root) :
          xml' = [xml EXCEPT !.root = TruncateAt(@, pt[1], pt[2])]
    /\ pc' = "Truncate"
    /\ UNCHANGED <<kml, base, parsed, colorVars, coordVars, geomVars, walk, heap>>

NextTruncate == TruncateInput \/ CorruptCoordinates \/ CallParse

SpecTruncate == InitTruncate /\ [][NextTruncate]_vars

\* The error, or an error its Unwrap chain leads to, is the given one.
RECURSIVE InChain(_, _)
InChain(err, cause) ==
    IF err = Nil THEN FALSE ELSE err = cause \/ InChain(err.cause, cause)

\* C22: every failure of Parse other than ErrEmptyDocument, including
\* truncated input, mismatched tags, a failure while skipping an unknown
\* element and a failure raised while decoding a nested Document, Folder or
\* Placemark, is returned as a *ParseError that has a non-empty Message and
\* wraps the underlying cause, and Parse never returns a KML value together
\* with an error.
C22_ParseFailuresAreParseErrors ==
    pc \in {"received;Parse", "Truncate;Parse", "Corrupt;Parse"}
    => /\ parsed.err # Nil => parsed.k = NoKML
       /\ (parsed.err # Nil /\ parsed.err # ErrEmptyDocument)
          => /\ parsed.err.kind = "ParseError"
             /\ parsed.err.msg # ""
             /\ parsed.err.cause # Nil
       /\ pc = "Truncate;Parse"
          => parsed.err.kind = "ParseError" /\ InChain(parsed.err.cause, SyntaxError)
       /\ (pc = "Corrupt;Parse" /\ parsed.err # Nil)
          => /\ parsed.err.kind = "ParseError"
             /\ \/ InChain(parsed.err.cause, Errorf("invalid coordinate tuple"))
                \/ InChain(parsed.err.cause, NumError)

C22_Witness ==
    /\ pc = "Truncate;Parse"
    /\ Len(xml.root.kids) = 2
    /\ xml.root.kids[2].tag = "NetworkLink"
    /\ Broken(xml.root.kids[2])
    /\ parsed.k = NoKML
    /\ parsed.err = ParseError("error decoding KML document", SyntaxError)

\* C23: every *ParseError returned by Parse carries the location of the
\* failure in the input: its Line and Column fields are 1-based positions, so
\* both are at least 1.
C23_ParseErrorHasLocation ==
    (pc \in {"received;Parse", "Truncate;Parse", "Corrupt;Parse"}
     /\ parsed.err # Nil /\ parsed.err.kind = "ParseError")
    => parsed.err.Line >= 1 /\ parsed.err.Column >= 1

(***************************************************************************)
(* Traversal and queries: Walk, Placemarks, FindByID, Filter and Bounds.   *)
(*                                                                         *)
(* The Feature handed to a callback is a pointer into the tree.  The model *)
(* writes such a pointer as the path from the root to the feature (the     *)
(* child indexes on the way), so that two equal placemarks of one tree are *)
(* still two features.  A callback is a closure: the model writes it as a  *)
(* record naming the function literal with the values it captured, and the *)
(* variables it assigns are fields of the state st that is threaded        *)
(* through the traversal.  st.calls lists the features the callback was    *)
(* called with.                                                            *)
(*                                                                         *)
(* A coordinate list is a slice.  For the outer ring of a Polygon the      *)
(* model keeps, next to the ring's elements, the rest of the array behind  *)
(* the slice (the elements between the ring's length and its capacity):    *)
(* st.spare maps the Polygon, named by the path of its placemark, a 0 and  *)
(* the path of the Polygon inside the placemark's geometry, to them.       *)
(***************************************************************************)
\* a < b on float64 values
NumLess(a, b) ==
    LET e == IF a.e <= b.e THEN a.e ELSE b.e
    IN a.m * Pow10(a.e - e) < b.m * Pow10(b.e - e)

\* getGeometryCoordinates(g): the coordinates of g and the memory afterwards.
\* In the *Polygon case coords starts as the outer ring's slice and takes one
\* append per inner boundary; held is the ring's array as the appends leave
\* it.  In the *MultiGeometry case coords starts nil, so its appends write to
\* arrays of their own.
RECURSIVE getGeometryCoordinates(_, _, _)
getGeometryCoordinates(g, key, spare) ==
    LET RECURSIVE PolygonLoop(_, _, _), MultiGeometryLoop(_, _, _)
        \* append(s, xs...) on the slice s = [arr, len, shared]: arr is the
        \* array behind the slice up to its capacity and shared tells whether
        \* that is still the array the Polygon's ring points into.  Elements
        \* that fit into the capacity are written in place; otherwise the
        \* elements move to a new array (of which the model keeps the elements
        \* only).
        AppendSlice(s, xs) ==
            IF s.len + Len(xs) <= Len(s.arr)
            THEN [s EXCEPT !.arr = SubSeq(s.arr, 1, s.len) \o xs
                                   \o SubSeq(s.arr, s.len + Len(xs) + 1, Len(s.arr)),
                           !.len = s.len + Len(xs)]
            ELSE [arr |-> SubSeq(s.arr, 1, s.len) \o xs, len |-> s.len + Len(xs),
                  shared |-> FALSE]
        PolygonLoop(s, held, inners) ==
            IF inners = <<>> THEN [coords |-> SubSeq(s.arr, 1, s.len), held |-> held]
            ELSE LET Then(t) == PolygonLoop(t, IF t.shared THEN t.arr ELSE held, Tail(inners))
                 IN Then(AppendSlice(s, Head(inners).Coordinates))
        MultiGeometryLoop(i, acc, sp) ==
            IF i > Len(g.Geometries) THEN [coords |-> acc, spare |-> sp]
            ELSE LET Then(r) == MultiGeometryLoop(i + 1, acc \o r.coords, r.spare)
                 IN Then(getGeometryCoordinates(g.Geometries[i], key \o <<i>>, sp))
    IN CASE g.type = "Point" -> [coords |-> <<g.Coordinates>>, spare |-> spare]
         [] g.type \in {"LineString", "LinearRing"} ->
               [coords |-> g.Coordinates, spare |-> spare]
         [] g.type = "Polygon" ->
               LET n == Len(g.OuterBoundary.Coordinates)
                   Then(r) ==
                       [coords |-> r.coords,
                        spare |-> [spare EXCEPT ![key] = SubSeq(r.held, n + 1, Len(r.held))]]
               IN Then(PolygonLoop([arr |-> g.OuterBoundary.Coordinates \o spare[key],
                                    len |-> n, shared |-> TRUE],
                                   g.OuterBoundary.Coordinates \o spare[key],
                                   g.InnerBoundaries))
         [] g.type = "MultiGeometry" -> MultiGeometryLoop(1, <<>>, spare)
         [] OTHER -> [coords |-> <<>>, spare |-> spare]

\* collectCoordinates(f)
collectCoordinates(f, p, spare) ==
    IF f.type # "Placemark" \/ f.Geometry = NoGeometry THEN [coords |-> <<>>, spare |-> spare]
    ELSE getGeometryCoordinates(f.Geometry, p \o <<0>>, spare)

\* fn(f): the function literals that Placemarks, FindByID, Filter and Bounds
\* hand to Walk, and the callback of a caller of Walk, which fails on its
\* failAt-th call (never when failAt is 0).  A caller's Filter predicate is
\* "all" or "hasID".  In the callback of Bounds minLon, minLat are st.sw and
\* maxLon, maxLat are st.ne; they start at the largest and the smallest
\* float64, which every number of the model lies strictly between, so the
\* first coordinate always replaces all four.
CallbackError == ErrorsNew("stop")

Callback(fn, f, p, st) ==
    LET s == [st EXCEPT !.calls = Append(@, p)]
        \* var errStopWalk = &struct{ error }{error: nil}: a non-nil error value
        errStopWalk == [kind |-> "errStopWalk", msg |-> "", cause |-> Nil]
        RECURSIVE BoundsLoop(_, _)
        BoundsLoop(cs, b) ==
            IF cs = <<>> THEN b
            ELSE LET c == Head(cs)
                     first == ~b.hasCoords
                 IN BoundsLoop(Tail(cs),
                       [b EXCEPT
                           !.hasCoords = TRUE,
                           !.sw = Coord(IF first \/ NumLess(c.Lon, b.sw.Lon) THEN c.Lon ELSE b.sw.Lon,
                                        IF first \/ NumLess(c.Lat, b.sw.Lat) THEN c.Lat ELSE b.sw.Lat,
                                        Zero),
                           !.ne = Coord(IF first \/ NumLess(b.ne.Lon, c.Lon) THEN c.Lon ELSE b.ne.Lon,
                                        IF first \/ NumLess(b.ne.Lat, c.Lat) THEN c.Lat ELSE b.ne.Lat,
                                        Zero)])
    IN CASE fn.lit = "callback" ->
                [s EXCEPT !.err = IF Len(s.calls) = fn.failAt THEN CallbackError ELSE Nil]
         [] fn.lit = "Placemarks" ->
                IF f.type = "Placemark" THEN [s EXCEPT !.result = Append(@, p)] ELSE s
         [] fn.lit = "FindByID" ->
                IF f.type \in {"Document", "Folder", "Placemark"} /\ f.ID = fn.id
                THEN [s EXCEPT !.result = <<p>>, !.err = errStopWalk]
                ELSE s
         [] fn.lit = "Filter" ->
                IF fn.pred = "all" \/ f.ID # <<>> THEN [s EXCEPT !.result = Append(@, p)] ELSE s
         [] fn.lit = "Bounds" ->
                LET Then(r) == BoundsLoop(r.coords, [s EXCEPT !.spare = r.spare])
                IN Then(collectCoordinates(f, p, s.spare))

RECURSIVE walkFeature(_, _, _, _), walkFeature_SiblingsFirst(_, _, _, _),
          walkFeature_NoStop(_, _, _, _)

\* walkFeature that calls the callback for all the children of a container
\* before it descends into the first of them (level order on a tree of depth
\* two).
walkFeature_SiblingsFirst(f, p, fn, st) ==
    LET RECURSIVE Visit(_, _), Descend(_, _)
        Visit(i, s) ==
            IF i > Len(f.Features) \/ s.err # Nil THEN s
            ELSE Visit(i + 1, Callback(fn, f.Features[i], p \o <<i>>, s))
        Descend(i, s) ==
            IF i > Len(f.Features) \/ s.err # Nil THEN s
            ELSE Descend(i + 1, walkFeature(f.Features[i], p \o <<i>>, fn, s))
        Then(s) == IF s.err # Nil \/ f.type \notin {"Document", "Folder"} THEN s
                   ELSE Descend(1, Visit(1, s))
    IN Then(IF p = <<>> THEN Callback(fn, f, p, st) ELSE st)

\* walkFeature that goes on after a call has returned an error.
walkFeature_NoStop(f, p, fn, st) ==
    LET RECURSIVE Children(_, _)
        Children(i, s) ==
            IF i > Len(f.Features) THEN s
            ELSE Children(i + 1, walkFeature(f.Features[i], p \o <<i>>, fn, s))
        Then(s) == IF f.type \in {"Document", "Folder"} THEN Children(1, s) ELSE s
    IN Then(Callback(fn, f, p, st))

\* walkFeature(f, fn): st.err is the error it returns.  Children is the range
\* over feature.Features.
walkFeature(f, p, fn, st) ==
    LET RECURSIVE Children(_, _)
        Children(i, s) ==
            IF i > Len(f.Features) THEN s
            ELSE LET Then(t) == IF t.err # Nil THEN t ELSE Children(i + 1, t)
                 IN Then(walkFeature(f.Features[i], p \o <<i>>, fn, s))
        Then(s) == IF s.err # Nil THEN s
                   ELSE IF f.type \in {"Document", "Folder"} THEN Children(1, s)
                   ELSE s
    IN Then(Callback(fn, f, p, st))

\* k.Walk(fn)
Walk(k, fn, st) ==
    IF k.Feature = NoFeature THEN [st EXCEPT !.err = Nil]
    ELSE walkFeature(k.Feature, <<>>, fn, st)

(***************************************************************************)
(* SpecWalk: a tree is built, with every Polygon's outer ring sliced from  *)
(* the front of a caller-held array, and one of the read-only operations   *)
(* is called on it.                                                        *)
(***************************************************************************)
\* The paths of the features of a tree, and the feature at a path.
RECURSIVE FeaturePaths(_)
FeaturePaths(f) ==
    IF f.type = "nil" THEN {}
    ELSE {<<>>} \cup
         (IF f.type \in {"Document", "Folder"}
          THEN UNION {{<<i>> \o q : q \in FeaturePaths(f.Features[i])} :
                         i \in 1..Len(f.Features)}
          ELSE {})

RECURSIVE FeatureAt(_, _)
FeatureAt(f, p) == IF p = <<>> THEN f ELSE FeatureAt(f.Features[Head(p)], Tail(p))

\* The paths of the Polygons of a geometry, and the keys of the Polygons of a tree.
RECURSIVE PolygonPaths(_)
PolygonPaths(g) ==
    CASE g.type = "Polygon" -> {<<>>}
      [] g.type = "MultiGeometry" ->
            UNION {{<<i>> \o q : q \in PolygonPaths(g.Geometries[i])} :
                      i \in 1..Len(g.Geometries)}
      [] OTHER -> {}

PolygonKeys(f) ==
    UNION {{p \o <<0>> \o q : q \in PolygonPaths(FeatureAt(f, p).Geometry)} :
              p \in {r \in FeaturePaths(f) : FeatureAt(f, r).type = "Placemark"}}

TwoHoles ==
    Placemark(<<"p", "2">>, <<>>, <<>>, "nil", <<>>, NilStruct,
              MultiGeometry(<<>>,
                            <<LineString(<<>>, FALSE, FALSE, <<>>, Hole),
                              Polygon(<<>>, FALSE, FALSE, <<>>,
                                      LinearRing(<<>>, FALSE, FALSE, <<>>, Square),
                                      <<LinearRing(<<>>, FALSE, FALSE, <<>>, <<>>),
                                        LinearRing(<<>>, FALSE, FALSE, <<>>,
                                                   <<Coord(Num(-3, 0), Num(7, 0), Zero)>>),
                                        LinearRing(<<>>, FALSE, FALSE, <<>>, Hole)>>)>>),
              NilStruct)

\* Trees in which depth-first order and level order differ: a Document whose
\* first child is a Folder with a Placemark (or with a Folder that holds the
\* Placemark) and whose second child is a Placemark.
DeepTrees ==
    {[ZeroDocument EXCEPT
         !.ID = <<"d", "1">>,
         !.Features = <<[ZeroFolder EXCEPT !.ID = <<"f", "1">>, !.Features = <<inner>>],
                         [ZeroPlacemark EXCEPT !.ID = c]>>] :
        inner \in {[ZeroPlacemark EXCEPT !.ID = b] : b \in {<<>>, <<"p", "1">>}}
                  \cup {[ZeroFolder EXCEPT !.Features = <<[ZeroPlacemark EXCEPT
                                                              !.ID = <<"p", "1">>]>>]},
        c \in {<<>>, <<"p", "1">>}}

WalkTrees ==
    FeatureInputs \cup DeepTrees
    \cup {NoFeature, TwoHoles, [ZeroFolder EXCEPT !.Features = <<TwoHoles>>]}

\* What the caller-held arrays hold behind the rings.
Marker == Coord(Num(9, 0), Num(9, 0), Num(9, 0))
ArrayRests == {<<>>, <<Marker>>, <<Marker, Marker>>, <<Marker, Marker, Marker>>}

IdArguments == {<<>>, <<"p", "1">>, <<"d", "1">>, <<"f", "1">>, <<"n", "o">>}

InitWalk ==
    /\ pc = "built"
    /\ kml \in {KML(ns, f) : ns \in {<<>>, OtherNamespace}, f \in WalkTrees}
    /\ \E rest \in ArrayRests :
          walk = [NoWalk EXCEPT !.spare = [key \in PolygonKeys(kml.Feature) |-> rest]]
    /\ xml = NoDoc /\ base = NoDoc /\ parsed = NoParsed
    /\ IdleColor /\ IdleCoord /\ IdleGeom /\ IdleHeap

\* k.Walk(fn) with a callback of the caller
CallWalk ==
    /\ pc = "built"
    /\ \E n \in 0..(MaxNodes + 2) :
          walk' = Walk(kml, [lit |-> "callback", failAt |-> n],
                       [walk EXCEPT !.fn = [lit |-> "callback", failAt |-> n]])
    /\ pc' = "Walk"
    /\ UNCHANGED <<colorVars, coordVars, geomVars, docVars, heap>>

\* k.Placemarks()
CallPlacemarks ==
    /\ pc = "built"
    /\ walk' = Walk(kml, [lit |-> "Placemarks"], [walk EXCEPT !.fn = [lit |-> "Placemarks"]])
    /\ pc' = "Placemarks"
    /\ UNCHANGED <<colorVars, coordVars, geomVars, docVars, heap>>

\* k.FindByID(id): walk'.result is the feature returned, <<>> for nil
CallFindByID ==
    /\ pc = "built"
    /\ \E id \in IdArguments :
          walk' = Walk(kml, [lit |-> "FindByID", id |-> id],
                       [walk EXCEPT !.fn = [lit |-> "FindByID", id |-> id]])
    /\ pc' = "FindByID"
    /\ UNCHANGED <<colorVars, coordVars, geomVars, docVars, heap>>

\* k.Filter(fn)
CallFilter ==
    /\ pc = "built"
    /\ \E pred \in {"all", "hasID"} :
          walk' = Walk(kml, [lit |-> "Filter", pred |-> pred],
                       [walk EXCEPT !.fn = [lit |-> "Filter", pred |-> pred]])
    /\ pc' = "Filter"
    /\ UNCHANGED <<colorVars, coordVars, geomVars, docVars, heap>>

\* k.Bounds(): walk'.sw and walk'.ne are the corners returned
CallBounds ==
    /\ pc = "built"
    /\ walk' = Walk(kml, [lit |-> "Bounds"], [walk EXCEPT !.fn = [lit |-> "Bounds"]])
    /\ pc' = "Bounds"
    /\ UNCHANGED <<colorVars, coordVars, geomVars, docVars, heap>>

NextWalk ==
    CallWalk \/ CallPlacemarks \/ CallFindByID \/ CallFilter \/ CallBounds \/ CallWrite

SpecWalk == InitWalk /\ [][NextWalk]_vars

(***************************************************************************)
(* Claims about the traversal (checked under SpecWalk).                    *)
(***************************************************************************)
\* Depth-first pre-order on paths: a feature comes before its descendants and
\* before everything under its later siblings.
Before(a, b) ==
    \/ Len(a) < Len(b) /\ SubSeq(b, 1, Len(a)) = a
    \/ \E i \in 1..Len(a) :
          /\ i <= Len(b)
          /\ SubSeq(a, 1, i - 1) = SubSeq(b, 1, i - 1)
          /\ a[i] < b[i]

\* C24: Walk calls the callback once for every feature of the tree, in
\* depth-first pre-order (a container before its children, children in list
\* order); when a call returns an error no further call is made and Walk
\* returns that error; on a KML without a root Feature it makes no call and
\* returns nil.
C24_WalkPreOrder ==
    pc = "Walk"
    => LET all == FeaturePaths(kml.Feature)
           calls == walk.calls
           failed == walk.fn.failAt \in 1..Cardinality(all)
       IN /\ \A i \in 1..Len(calls) : calls[i] \in all
          /\ \A i, j \in 1..Len(calls) : i < j => Before(calls[i], calls[j])
          /\ \A i \in 1..Len(calls) :
                \A q \in all : Before(q, calls[i]) => \E j \in 1..Len(calls) : calls[j] = q
          /\ Len(calls) = (IF failed THEN walk.fn.failAt ELSE Cardinality(all))
          /\ walk.err = (IF failed THEN CallbackError ELSE Nil)
          /\ kml.Feature = NoFeature => calls = <<>> /\ walk.err = Nil

\* A full walk of a tree whose first child has a child of its own: the
\* grandchild is visited before the second child.
C24_Witness ==
    /\ pc = "Walk"
    /\ kml.Feature.type = "Document"
    /\ Len(kml.Feature.Features) = 2
    /\ kml.Feature.Features[1].type = "Folder"
    /\ walk.calls = << <<>>, <<1>>, <<1, 1>>, <<2>> >>
    /\ walk.err = Nil

\* C25: FindByID returns the first feature in depth-first pre-order whose ID
\* equals the argument, and its callback is called with no feature after
\* that one; it returns nil when no feature of the tree has the ID.
C25_FindByIDFirstMatch ==
    pc = "FindByID"
    => LET all == FeaturePaths(kml.Feature)
           matches == {p \in all : FeatureAt(kml.Feature, p).ID = walk.fn.id}
       IN IF matches = {} THEN walk.result = <<>>
          ELSE /\ Len(walk.result) = 1
               /\ walk.result[1] \in matches
               /\ \A q \in matches : q = walk.result[1] \/ Before(walk.result[1], q)
               /\ walk.calls[Len(walk.calls)] = walk.result[1]
               /\ \A i \in 1..Len(walk.calls) :
                     walk.calls[i] = walk.result[1] \/ Before(walk.calls[i], walk.result[1])

\* The ID is that of a grandchild under the first child and of the second
\* child: the grandchild is returned and the second child is never visited.
C25_Witness ==
    /\ pc = "FindByID"
    /\ walk.fn.id = <<"p", "1">>
    /\ kml.Feature.type = "Document"
    /\ Len(kml.Feature.Features) = 2
    /\ kml.Feature.Features[1].type = "Folder"
    /\ kml.Feature.Features[1].ID # <<"p", "1">>
    /\ Len(kml.Feature.Features[1].Features) = 1
    /\ kml.Feature.Features[1].Features[1].ID = <<"p", "1">>
    /\ kml.Feature.Features[2].ID = <<"p", "1">>
    /\ walk.result = << <<1, 1>> >>
    /\ walk.calls = << <<>>, <<1>>, <<1, 1>> >>

\* C26: the read-only operations (Write, Bytes, Walk, Placemarks, Filter,
\* FindByID, Bounds) modify nothing: the KML value with its namespace, the
\* features, styles, geometries and coordinate lists, and the rest of the
\* array behind the outer ring of every Polygon hold after the call what
\* they held before it.
C26_ReadOnlyOperations == [][kml' = kml /\ walk'.spare = walk.spare]_vars

(***************************************************************************)
(* The builders (builder.go).  The builders work on objects they share     *)
(* through pointers, so the model keeps a heap:                            *)
(*   objs      the Documents, the Folders and the Placemarks that were     *)
(*             allocated; a Features list holds the addresses of its       *)
(*             children and the Styles of a Document is a slice, an array  *)
(*             and a length;                                               *)
(*   arrays    the arrays that have been allocated for Styles slices; a    *)
(*             slot holds a Style with the addresses of its sub-styles     *)
(*             (0 for nil), an array is as long as its capacity;           *)
(*   subs      the IconStyle, LabelStyle, LineStyle and PolyStyle objects; *)
(*   root      kml.Feature of the KML under construction: the address of a *)
(*             Document, 0 for nil;                                        *)
(*   builders  the builders handed out so far: their kind, the object they *)
(*             point at (a slot of an array for a StyleBuilder) and the    *)
(*             builder that Done returns;                                  *)
(*   ret       the builder returned by the last call;                      *)
(*   calls     the number of calls made so far;                            *)
(*   log       the calls made so far that returned another builder than    *)
(*             their receiver: the method, the builder it was called on,   *)
(*             the builder it returned and its argument.                   *)
(* Each call that creates a feature or a style names it after its place in *)
(* the log.                                                                *)
(***************************************************************************)
MaxCalls == 5        \* most builder calls after NewKMLBuilder

Ref(arr, idx) == [arr |-> arr, idx |-> idx]

SubStyleTypes == {"IconStyle", "LabelStyle", "LineStyle", "PolyStyle"}

\* Style{ID: id}, and the zero Style that fills the unused slots of an array
StyleSlot(id) ==
    [ID |-> id, IconStyle |-> 0, LabelStyle |-> 0, LineStyle |-> 0, PolyStyle |-> 0]

\* A nil slice of Styles.
NilSlice == [arr |-> 0, len |-> 0]

CallName(h) == <<"n", DecDigits[Len(h.log) + 2]>>

BuildersOf(h, kinds) == {b \in 1..Len(h.builders) : h.builders[b].kind \in kinds}

\* The Style, and the feature, that a slot and an object stand for.
StyleValue(h, slot) ==
    [type |-> "Style", ID |-> slot.ID,
     IconStyle |-> IF slot.IconStyle = 0 THEN NilStruct ELSE h.subs[slot.IconStyle],
     LabelStyle |-> IF slot.LabelStyle = 0 THEN NilStruct ELSE h.subs[slot.LabelStyle],
     LineStyle |-> IF slot.LineStyle = 0 THEN NilStruct ELSE h.subs[slot.LineStyle],
     PolyStyle |-> IF slot.PolyStyle = 0 THEN NilStruct ELSE h.subs[slot.PolyStyle],
     BalloonStyle |-> NilStruct]

RECURSIVE FeatureValue(_, _)
FeatureValue(h, a) ==
    LET o == h.objs[a]
        Kids(fs) == [i \in 1..Len(fs) |-> FeatureValue(h, fs[i])]
    IN CASE o.type = "Document" ->
              [o EXCEPT
                  !.Styles = [i \in 1..o.Styles.len |->
                                 StyleValue(h, h.arrays[o.Styles.arr][i])],
                  !.Features = Kids(o.Features)]
         [] o.type = "Folder" -> [o EXCEPT !.Features = Kids(o.Features)]
         [] OTHER -> o

\* NewKMLBuilder(): builder 1 is the KMLBuilder, its KML has no Feature yet
InitBuilder ==
    /\ pc = "NewKMLBuilder"
    /\ heap = [NoHeap EXCEPT
                  !.builders = <<[kind |-> "KML", target |-> Ref(0, 0), parent |-> 0]>>,
                  !.ret = 1]
    /\ IdleColor /\ IdleCoord /\ IdleGeom /\ IdleDoc /\ IdleWalk

\* What every builder call leaves alone.
BuilderFrame ==
    /\ heap.calls < MaxCalls
    /\ pc # "Build"
    /\ UNCHANGED <<colorVars, coordVars, geomVars, docVars, walk>>

\* What a call that returns the new builder nb leaves in builders, ret, calls
\* and log.
Returned(h, op, b, nb, arg) ==
    [h EXCEPT !.builders = Append(@, nb),
              !.ret = Len(h.builders) + 1,
              !.calls = @ + 1,
              !.log = Append(@, [op |-> op, by |-> b, ret |-> Len(h.builders) + 1,
                                 arg |-> arg])]

\* kb.Document(name): a new Document becomes the Feature of the KML
KMLBuilderDocument ==
    /\ BuilderFrame
    /\ \E b \in BuildersOf(heap, {"KML"}) :
          heap' = Returned([heap EXCEPT
                               !.objs = Append(@, [ZeroDocument EXCEPT
                                                      !.Name = CallName(heap),
                                                      !.Styles = NilSlice]),
                               !.root = Len(heap.objs) + 1],
                           "Document", b,
                           [kind |-> "Document", target |-> Ref(0, Len(heap.objs) + 1),
                            parent |-> b],
                           CallName(heap))
    /\ pc' = "Document"

\* db.Style(id)
BuilderStyle ==
    /\ BuilderFrame
    /\ \E b \in BuildersOf(heap, {"Document"}) :
          LET doc == heap.builders[b].target.idx
              s == heap.objs[doc].Styles
              cap == IF s.arr = 0 THEN 0 ELSE Len(heap.arrays[s.arr])
              newCap == IF cap = 0 THEN 1 ELSE 2 * cap
              style == StyleSlot(CallName(heap))
              \* append(db.document.Styles, style): in place while the capacity
              \* lasts, and otherwise into a new array of twice the capacity (of
              \* capacity 1 for a nil slice), which is how the runtime grows a
              \* short slice whose 56-byte elements fill the allocator's size
              \* classes exactly.
              appended ==
                 IF s.len < cap
                 THEN [heap EXCEPT !.arrays[s.arr][s.len + 1] = style,
                                   !.objs[doc].Styles.len = s.len + 1]
                 ELSE [heap EXCEPT
                         !.arrays = Append(@, [i \in 1..newCap |->
                                                 IF i <= s.len THEN heap.arrays[s.arr][i]
                                                 ELSE IF i = s.len + 1 THEN style
                                                 ELSE StyleSlot(<<>>)]),
                         !.objs[doc].Styles = [arr |-> Len(heap.arrays) + 1,
                                               len |-> s.len + 1]]
              \* stylePtr := &db.document.Styles[len(db.document.Styles)-1]
              stylePtr == Ref(appended.objs[doc].Styles.arr, appended.objs[doc].Styles.len)
          IN heap' = Returned(appended, "Style", b,
                              [kind |-> "Style", target |-> stylePtr, parent |-> b],
                              CallName(heap))
    /\ pc' = "Style"

\* db.Folder(name) and fb.Folder(name) that put the new folder first.
BuilderFolder_Prepend ==
    /\ BuilderFrame
    /\ \E b \in BuildersOf(heap, {"Document", "Folder"}) :
          heap' = Returned([heap EXCEPT
                               !.objs = Append([@ EXCEPT
                                                   ![heap.builders[b].target.idx].Features =
                                                       <<Len(heap.objs) + 1>> \o @],
                                               [ZeroFolder EXCEPT !.Name = CallName(heap)])],
                           "Folder", b,
                           [kind |-> "Folder", target |-> Ref(0, Len(heap.objs) + 1),
                            parent |-> b],
                           CallName(heap))
    /\ pc' = "Folder"

\* db.Folder(name) and fb.Folder(name)
BuilderFolder ==
    /\ BuilderFrame
    /\ \E b \in BuildersOf(heap, {"Document", "Folder"}) :
          heap' = Returned([heap EXCEPT
                               !.objs = Append([@ EXCEPT
                                                   ![heap.builders[b].target.idx].Features =
                                                       Append(@, Len(heap.objs) + 1)],
                                               [ZeroFolder EXCEPT !.Name = CallName(heap)])],
                           "Folder", b,
                           [kind |-> "Folder", target |-> Ref(0, Len(heap.objs) + 1),
                            parent |-> b],
                           CallName(heap))
    /\ pc' = "Folder"

\* db.Placemark(name) and fb.Placemark(name)
BuilderPlacemark ==
    /\ BuilderFrame
    /\ \E b \in BuildersOf(heap, {"Document", "Folder"}) :
          heap' = Returned([heap EXCEPT
                               !.objs = Append([@ EXCEPT
                                                   ![heap.builders[b].target.idx].Features =
                                                       Append(@, Len(heap.objs) + 1)],
                                               [ZeroPlacemark EXCEPT
                                                   !.Name = CallName(heap)])],
                           "Placemark", b,
                           [kind |-> "Placemark", target |-> Ref(0, Len(heap.objs) + 1),
                            parent |-> b],
                           CallName(heap))
    /\ pc' = "Placemark"

\* The arguments the setters are called with.
NameArgument == <<"x">>
DescriptionArgument == <<"d">>
StyleURLArgument == <<"#", "s">>
HrefArgument == <<"u">>
UnitsArgument == <<"p", "i", "x", "e", "l", "s">>

\* db.Name(name), db.Description(desc), db.Open(open), the same three of a
\* FolderBuilder, and pb.Name(name), pb.Description(desc), pb.StyleURL(url):
\* each sets one field of the object the builder points at and returns the
\* builder it was called on.
BuilderSetField ==
    /\ BuilderFrame
    /\ \E b \in BuildersOf(heap, {"Document", "Folder", "Placemark"}) :
          LET a == heap.builders[b].target.idx
              Called(h) == [h EXCEPT !.ret = b, !.calls = @ + 1]
          IN \/ heap' = Called([heap EXCEPT !.objs[a].Name = NameArgument])
             \/ heap' = Called([heap EXCEPT !.objs[a].Description = DescriptionArgument])
             \/ /\ heap.builders[b].kind \in {"Document", "Folder"}
                /\ \E open \in BOOLEAN : heap' = Called([heap EXCEPT !.objs[a].Open = open])
             \/ /\ heap.builders[b].kind = "Placemark"
                /\ heap' = Called([heap EXCEPT !.objs[a].StyleURL = StyleURLArgument])
    /\ pc' = "SetField"

\* pb.Point(lon, lat, alt...), pb.LineString(coords...) and
\* pb.Polygon(outer, inner...): each replaces the Placemark's Geometry by a
\* new geometry and returns the builder it was called on.
BuilderGeometry ==
    /\ BuilderFrame
    /\ \E b \in BuildersOf(heap, {"Placemark"}) :
          LET a == heap.builders[b].target.idx
              Called(h) == [h EXCEPT !.ret = b, !.calls = @ + 1]
              \* Coord(lon, lat, alt...)
              CoordOf(lon, lat, alt) ==
                 Coord(lon, lat, IF Len(alt) > 0 THEN alt[1] ELSE Zero)
              RECURSIVE InnerLoop(_, _)
              InnerLoop(polygon, inner) ==
                 IF inner = <<>> THEN polygon
                 ELSE InnerLoop([polygon EXCEPT
                                    !.InnerBoundaries =
                                        Append(@, [ZeroLinearRing EXCEPT
                                                      !.Coordinates = Head(inner)])],
                                Tail(inner))
          IN \/ \E alt \in {<<>>, <<Num(100, 0)>>} :
                   heap' = Called([heap EXCEPT
                                      !.objs[a].Geometry =
                                          [ZeroPoint EXCEPT
                                              !.Coordinates =
                                                  CoordOf(Num(-122, 0), Num(37, 0), alt)]])
             \/ heap' = Called([heap EXCEPT
                                   !.objs[a].Geometry =
                                       [ZeroLineString EXCEPT !.Coordinates = Hole]])
             \/ \E inner \in {<<>>, <<Hole>>} :
                   heap' = Called([heap EXCEPT
                                      !.objs[a].Geometry =
                                          InnerLoop([ZeroPolygon EXCEPT
                                                        !.OuterBoundary =
                                                            [ZeroLinearRing EXCEPT
                                                                !.Coordinates = Square]],
                                                    inner)])
    /\ pc' = "Geometry"

\* db.Done(), fb.Done(), pb.Done(), sb.Done() and the Done of a sub-style
\* builder
BuilderDone ==
    /\ BuilderFrame
    /\ \E b \in BuildersOf(heap, {"Document", "Folder", "Placemark", "Style"}
                                 \cup SubStyleTypes) :
          heap' = [heap EXCEPT
                      !.ret = heap.builders[b].parent,
                      !.calls = @ + 1,
                      !.log = Append(@, [op |-> "Done", by |-> b,
                                         ret |-> heap.builders[b].parent, arg |-> <<>>])]
    /\ pc' = "Done"

\* sb.IconStyle(), sb.LabelStyle(), sb.LineStyle(), sb.PolyStyle()
BuilderSubStyle ==
    /\ BuilderFrame
    /\ \E b \in BuildersOf(heap, {"Style"}), T \in SubStyleTypes :
          LET at == heap.builders[b].target
              isNil == heap.arrays[at.arr][at.idx][T] = 0
              sub == IF isNil THEN Len(heap.subs) + 1 ELSE heap.arrays[at.arr][at.idx][T]
          IN heap' = Returned([heap EXCEPT
                                  !.subs = IF isNil THEN Append(@, ZeroStruct(T)) ELSE @,
                                  !.arrays[at.arr][at.idx][T] = sub],
                              T, b, [kind |-> T, target |-> Ref(0, sub), parent |-> b],
                              <<>>)
    /\ pc' = "SubStyle"

\* The setters of the sub-style builders: Color of all four, Scale, Heading,
\* Icon and HotSpot of an IconStyleBuilder, Width of a LineStyleBuilder, Fill
\* and Outline of a PolyStyleBuilder and Scale of a LabelStyleBuilder.  Each
\* sets one field of the sub-style the builder points at and returns the
\* builder it was called on.
BuilderSubStyleSet ==
    /\ BuilderFrame
    /\ \E b \in BuildersOf(heap, SubStyleTypes) :
          LET a == heap.builders[b].target.idx
              kind == heap.builders[b].kind
              Called(h) == [h EXCEPT !.ret = b, !.calls = @ + 1]
          IN \/ heap' = Called([heap EXCEPT !.subs[a].Color = Color(255, 0, 0, 255)])
             \/ /\ kind \in {"IconStyle", "LabelStyle"}
                /\ heap' = Called([heap EXCEPT !.subs[a].Scale = Num(12, -1)])
             \/ /\ kind = "IconStyle"
                /\ \/ heap' = Called([heap EXCEPT !.subs[a].Heading = Num(90, 0)])
                   \/ heap' = Called([heap EXCEPT
                                         !.subs[a].Icon =
                                             [ZeroStruct("Icon") EXCEPT
                                                 !.Href = HrefArgument]])
                   \/ heap' = Called([heap EXCEPT
                                         !.subs[a].HotSpot =
                                             [ZeroStruct("HotSpot") EXCEPT
                                                 !.X = Num(5, -1), !.Y = Num(1, 0),
                                                 !.XUnits = UnitsArgument,
                                                 !.YUnits = UnitsArgument]])
             \/ /\ kind = "LineStyle"
                /\ heap' = Called([heap EXCEPT !.subs[a].Width = Num(2, 0)])
             \/ /\ kind = "PolyStyle"
                /\ \E v \in BOOLEAN :
                      \/ heap' = Called([heap EXCEPT
                                            !.subs[a].Fill = IF v THEN "true" ELSE "false"])
                      \/ heap' = Called([heap EXCEPT
                                            !.subs[a].Outline =
                                                IF v THEN "true" ELSE "false"])
    /\ pc' = "SubStyleSet"

\* kb.Build() and db.Build(): both return the KML of the KMLBuilder
BuilderBuild ==
    /\ pc # "Build"
    /\ kml' = KML(DefaultNamespace,
                  IF heap.root = 0 THEN NoFeature ELSE FeatureValue(heap, heap.root))
    /\ pc' = "Build"
    /\ UNCHANGED <<colorVars, coordVars, geomVars, xml, base, parsed, walk, heap>>

NextBuilder ==
    \/ KMLBuilderDocument \/ BuilderStyle \/ BuilderFolder \/ BuilderPlacemark
    \/ BuilderSetField \/ BuilderGeometry \/ BuilderDone \/ BuilderSubStyle
    \/ BuilderSubStyleSet \/ BuilderBuild

SpecBuilder == InitBuilder /\ [][NextBuilder]_vars

(***************************************************************************)
(* Claims about the builders (checked under SpecBuilder).                  *)
(***************************************************************************)
\* The Folder and Placemark calls made on builders of the container at
\* address c, in the order they were made.
CallsOn(c) ==
    SelectSeq(heap.log, LAMBDA e : /\ e.op \in {"Folder", "Placemark"}
                                   /\ heap.builders[e.by].target.idx = c)

\* C27: after any sequence of Folder and Placemark calls on a DocumentBuilder
\* and on FolderBuilders, the Features of each container lists its children
\* in the order the calls were made (the i-th child is the object the i-th
\* call created, with the name that call or a later Name call gave it), and
\* Done on a FolderBuilder or a PlacemarkBuilder returns the builder it was
\* created from; the Document that Build returns lists the values of the
\* children in that order.
C27_BuilderOrder ==
    /\ \A c \in 1..Len(heap.objs) :
          heap.objs[c].type \in {"Document", "Folder"}
          => /\ Len(heap.objs[c].Features) = Len(CallsOn(c))
             /\ \A i \in 1..Len(CallsOn(c)) :
                   /\ heap.objs[c].Features[i] = heap.builders[CallsOn(c)[i].ret].target.idx
                   /\ heap.objs[heap.objs[c].Features[i]].type = CallsOn(c)[i].op
                   /\ heap.objs[heap.objs[c].Features[i]].Name
                         \in {CallsOn(c)[i].arg, NameArgument}
    /\ \A i \in 1..Len(heap.log) :
          (heap.log[i].op = "Done"
           /\ heap.builders[heap.log[i].by].kind \in {"Folder", "Placemark"})
          => \E j \in 1..(i - 1) : /\ heap.log[j].op \in {"Folder", "Placemark"}
                                   /\ heap.log[j].ret = heap.log[i].by
                                   /\ heap.log[j].by = heap.log[i].ret
    /\ (pc = "Build" /\ heap.root # 0)
       => /\ kml.Feature.type = "Document"
          /\ Len(kml.Feature.Features) = Len(CallsOn(heap.root))
          /\ \A i \in 1..Len(CallsOn(heap.root)) :
                /\ kml.Feature.Features[i].type = CallsOn(heap.root)[i].op
                /\ kml.Feature.Features[i].Name
                      = heap.objs[heap.builders[CallsOn(heap.root)[i].ret].target.idx].Name

C27_Witness ==
    /\ pc = "Build"
    /\ Len(heap.log) = 5
    /\ heap.log[1].op = "Document" /\ heap.log[1].by = 1
    /\ heap.log[2].op = "Folder" /\ heap.log[2].by = 2
    /\ heap.log[3].op = "Placemark" /\ heap.log[3].by = 3
    /\ heap.log[4].op = "Done" /\ heap.log[4].by = 3 /\ heap.log[4].ret = 2
    /\ heap.log[5].op = "Placemark" /\ heap.log[5].by = 2
    /\ Len(kml.Feature.Features) = 2
    /\ kml.Feature.Features[1].type = "Folder"
    /\ Len(kml.Feature.Features[1].Features) = 1
    /\ kml.Feature.Features[2].Name = <<"n", "5">>

\* C28: for any interleaving of Style calls, sub-style calls on the
\* StyleBuilders they returned and setter calls on the sub-style builders,
\* every sub-style set through a StyleBuilder of the built Document, as its
\* setters left it, is in the built Document's Styles entry that has the id
\* of that StyleBuilder, also when further styles were added after the
\* StyleBuilder was obtained.
C28_SubStylesReachDocument ==
    pc = "Build"
    => \A i \in 1..Len(heap.log) :
          (/\ heap.log[i].op \in SubStyleTypes
           /\ heap.builders[heap.builders[heap.log[i].by].parent].target.idx = heap.root)
          => \E j \in 1..(i - 1), k \in 1..Len(kml.Feature.Styles) :
                /\ heap.log[j].op = "Style"
                /\ heap.log[j].ret = heap.log[i].by
                /\ kml.Feature.Styles[k].ID = heap.log[j].arg
                /\ kml.Feature.Styles[k][heap.log[i].op]
                      = heap.subs[heap.builders[heap.log[i].ret].target.idx]

(***************************************************************************)
(* SpecStyle: a document with one Style is received, parsed, and the       *)
(* parsed KML is written again.                                            *)
(***************************************************************************)
Red == <<"f", "f", "0", "0", "0", "0", "f", "f">>

\* The sub-style elements a received Style is made of: each kind without a
\* color child, with one, and one with nothing but a color.
SubStyleElems ==
    {Elem("IconStyle", <<>>, <<>>, kids) :
        kids \in {<<TextElem("scale", <<"2">>)>>,
                  <<TextElem("color", Red), TextElem("scale", <<"2">>)>>}}
    \cup {Elem("LabelStyle", <<>>, <<>>, kids) :
             kids \in {<<>>, <<TextElem("color", Red)>>}}
    \cup {Elem("LineStyle", <<>>, <<>>, kids) :
             kids \in {<<TextElem("width", <<"4">>)>>,
                       <<TextElem("width", <<"4">>), TextElem("color", Hex(Color(0, 0, 0, 0)))>>}}
    \cup {Elem("PolyStyle", <<>>, <<>>, kids) :
             kids \in {<<TextElem("fill", <<"0">>)>>,
                       <<TextElem("color", Red), TextElem("fill", <<"0">>)>>}}

StyledDocs ==
    {Doc(XMLHeader,
         Elem("kml", <<Attr("xmlns", DefaultNamespace)>>, <<>>,
              <<Elem("Document", <<>>, <<>>,
                     <<Elem("Style", <<Attr("id", <<"s">>)>>, <<>>, kids)>>)>>),
         "\n") : kids \in SeqsUpTo(SubStyleElems, MaxKids)}

InitStyle ==
    /\ pc = "received"
    /\ xml \in StyledDocs
    /\ kml = NoKML /\ base = NoDoc /\ parsed = NoParsed
    /\ IdleColor /\ IdleCoord /\ IdleGeom /\ IdleWalk /\ IdleHeap

\* k.Write(w) for the k that Parse returned; base keeps the document received
WriteParsed ==
    /\ pc = "received;Parse"
    /\ parsed.err = Nil
    /\ kml' = parsed.k
    /\ base' = xml
    /\ xml' = Write(parsed.k)
    /\ pc' = "received;Parse;Write"
    /\ UNCHANGED <<parsed, colorVars, coordVars, geomVars, walk, heap>>

NextStyle == CallParse \/ WriteParsed

SpecStyle == InitStyle /\ [][NextStyle]_vars

\* The children of an element with a given tag, and the Style element of a
\* document of StyledDocs or of its rewriting.
KidsTagged(el, tag) == SelectSeq(el.kids, LAMBDA k : k.tag = tag)

StyleElemOf(doc) == KidsTagged(KidsTagged(doc.root, "Document")[1], "Style")[1]

\* C29: a style decoded from an IconStyle, LabelStyle, LineStyle or PolyStyle
\* element that has no color child is encoded again without a color child.
C29_NoColorAdded ==
    pc = "received;Parse;Write"
    => \A T \in SubStyleTypes :
          LET in == KidsTagged(StyleElemOf(base), T)
              out == KidsTagged(StyleElemOf(xml), T)
          IN (in # <<>> /\ \A i \in 1..Len(in) : KidsTagged(in[i], "color") = <<>>)
             => /\ Len(out) = 1
                /\ KidsTagged(out[1], "color") = <<>>

\* C30 (checked under Spec): parsing the output of Write succeeds if and only
\* if the Feature of the written KML is a non-nil Document, Folder or
\* Placemark; writing a KML whose Feature is nil succeeds, giving an empty kml
\* element, and parsing that output fails with ErrEmptyDocument.
C30_WriteThenParse ==
    pc = "Write;Parse"
    => /\ parsed.err = Nil <=> kml.Feature.type \in FeatureTags
       /\ kml.Feature = NoFeature
          => /\ xml.prolog = XMLHeader
             /\ xml.root.tag = "kml"
             /\ xml.root.kids = <<>>
             /\ xml.epilog = "\n"
             /\ parsed.err = ErrEmptyDocument
             /\ parsed.k = NoKML

C30_Witness ==
    /\ pc = "Write;Parse"
    /\ kml = KML(<<>>, NoFeature)
    /\ xml.root.attrs = <<Attr("xmlns", DefaultNamespace)>>
    /\ xml.root.kids = <<>>
    /\ parsed.err = ErrEmptyDocument

====
